---------------------------- MODULE Spec2Model ----------------------------
(***************************************************************************)
(* Poseidon sponge chip (src/src/poseidon/poseidon_circuit.rs) and the     *)
(* canonical absorb order of the recursive input                           *)
(* (src/src/ivc/cyclefold/sfc/input/mod.rs).                               *)
(*                                                                         *)
(* Field elements are residues modulo P.  A circuit region is a sequence   *)
(* of rows (row r of the region is element r + 1); a row holds the advice  *)
(* columns state[0..T), input, out and the fixed columns q_1, q_5, q_i,    *)
(* q_o, rc of PoseidonConfig.  Slot and round indices are 0-based, as in   *)
(* the source; sequences are 1-based, hence the "+ 1" when indexing.       *)
(***************************************************************************)
EXTENDS Integers, Sequences, FiniteSets, TLC

(* ------------------------------- bounds -------------------------------- *)
\* Modulus of the modelled field F.
P == 7
\* Largest number of elements the chip's buffer holds.
MaxBuf == 3
\* Largest number of elements of one update call.
MaxUpd == 2
\* Largest number of squeeze calls on one chip.
MaxSqueeze == 2
\* Largest offset the caller's region context has when squeeze is called.
MaxCtxOffset == 1
\* The parameter tables Spec::new may hand to the chip, by number.
Specs == {0, 1}

\* Shapes of the accumulator instances absorbed: commitment points, public
\* input columns and their length, challenges, betas, limbs per coordinate.
MaxPoints == 2

MaxCols == 2

MaxColLen == 2

MaxChallenges == 2

MaxBetas == 2

LimbsCount == 2

\* The largest native challenge count and the largest degree for folding a
\* circuit shape is given.
MaxNativeChallenges == 4

MaxDegree == 2

\* Shapes of the recursive inputs: the sizes a shape is built from, the
\* step counter, the width of the application state, and the modulus of
\* the field F the inputs live in.
MaxDim == 2

MaxStep == 2

Arity == 2

Q == 9001

(* -------------------------- program constants -------------------------- *)
T == 3
RATE == 2
R_F == 4
R_P == 3

(* ---------------------------- field arithmetic ------------------------- *)
Fp == 0 .. (P - 1)

Add(a, b) == (a + b) % P

Mul(a, b) == (a * b) % P

Neg(a) == (P - (a % P)) % P

\* invert().unwrap(): the inverse when there is one.
Inv(a) == CHOOSE y \in Fp : Mul(a, y) = 1 % P

\* The closure pow_5 of next_state_val and configure.
pow_5(v) == LET v2 == Mul(v, v) IN Mul(Mul(v2, v2), v)

RECURSIVE Sum(_, _)
\* Sum of f[1] .. f[n] in the field.
Sum(f, n) == IF n = 0 THEN 0 ELSE Add(Sum(f, n - 1), f[n])

RECURSIVE PowMod(_, _)
PowMod(b, e) == IF e = 0 THEN 1 % P ELSE Mul(b, PowMod(b, e - 1))

RECURSIVE Tab(_, _)
\* The sequence <<F(1), ..., F(n)>>.
Tab(F(_), n) == IF n = 0 THEN <<>> ELSE Append(Tab(F, n - 1), F(n))

\* F applied to the value of v, v being evaluated once.
Let(v, F(_)) == CHOOSE y \in {F(x) : x \in {v}} : TRUE

Zeros == Tab(LAMBDA i : 0, T)

\* The field elements a caller passes as inputs and initial states: the two
\* values the padding itself uses.
Elems == {0, 1}

(* ------------------ parameter tables of the chip's Spec ---------------- *)
\* The tables are an external parameter table; table k of family s is a
\* fixed residue.  Different (s, k) give different-looking tables so that a
\* wrong index or a wrong table shows in the result.
Gen(s, k) == (k * k * (s + 1) + 3 * k + s + 1) % P

r_f_half == R_F \div 2

\* constants().start(): r_f_half + 1 vectors of width T.
ConstStart(s) == Tab(LAMBDA r : Tab(LAMBDA i : Gen(s, 10 * r + i), T), r_f_half + 1)

\* constants().partial(): R_P scalars.
ConstPartial(s) == Tab(LAMBDA r : Gen(s, 50 + r), R_P)

\* constants().end(): r_f_half - 1 vectors of width T.
ConstEnd(s) == Tab(LAMBDA r : Tab(LAMBDA i : Gen(s, 70 + 10 * r + i), T), r_f_half - 1)

\* mds_matrices().mds().rows()
Mds(s) == Tab(LAMBDA i : Tab(LAMBDA j : Gen(s, 100 + 4 * i + j), T), T)

\* mds_matrices().pre_sparse_mds().rows()
PreSparseMds(s) == Tab(LAMBDA i : Tab(LAMBDA j : Gen(s, 120 + 5 * i + j), T), T)

\* mds_matrices().sparse_matrices()[r].row()
SparseRow(s) == Tab(LAMBDA r : Tab(LAMBDA j : Gen(s, 140 + 7 * r + j), T), R_P)

\* mds_matrices().sparse_matrices()[r].col_hat()
SparseColHat(s) == Tab(LAMBDA r : Tab(LAMBDA j : Gen(s, 170 + 3 * r + j), T - 1), R_P)

\* poseidon::State::default().words(): 2^64 in slot 0, zero elsewhere.
State0 == Tab(LAMBDA i : IF i = 1 THEN PowMod(2, 64) ELSE 0, T)

(* ------------------------- region and its cursor ----------------------- *)
\* Advice columns in the order configure takes them: state[0..T), input, out.
ColInput == T + 1

ColOut == T + 2

BlankRow == [kind |-> "none", first |-> FALSE, round |-> 0, idx |-> 0,
             s |-> Zeros, input |-> 0, out |-> 0,
             q1 |-> Zeros, q5 |-> Zeros, qi |-> 0, qo |-> 0, rc |-> 0,
             eq |-> {}]

NoCell == [row |-> 0 - 1, col |-> 0, val |-> 0]

\* A region context: the rows assigned so far, the cursor, and the row
\* numbers written, in the order they were written.
NewCtx(rows, off) == [rows |-> rows, offset |-> off, log |-> <<>>]

\* The row under the cursor (a row never assigned is blank).
CurRow(ctx) == IF ctx.offset + 1 <= Len(ctx.rows) THEN ctx.rows[ctx.offset + 1] ELSE BlankRow

\* Assigning cells of the row under the cursor: the other rows are kept.
WriteRow(ctx, row) ==
    LET n == Len(ctx.rows)
        o == ctx.offset
    IN [rows |-> IF o >= n
                 THEN Append(ctx.rows \o Tab(LAMBDA k : BlankRow, o - n), row)
                 ELSE Append(SubSeq(ctx.rows, 1, o), row) \o SubSeq(ctx.rows, o + 2, n),
        offset |-> o,
        log |-> Append(ctx.log, o)]

\* RegionCtx::next
CtxNext(ctx) == [ctx EXCEPT !.offset = @ + 1]

\* RegionCtx::reset
CtxReset(ctx, off) == [ctx EXCEPT !.offset = off]

Cell(r, c, v) == [row |-> r, col |-> c, val |-> v]

Loc(cell) == <<cell.row, cell.col>>


(* ------------------------------ the chip ------------------------------- *)
\* The gate output computed without the row's constant.
next_state_val_no_rc(state, q_1, q_5, q_o, rc) ==
    Mul(Sum(Tab(LAMBDA i : Add(Mul(pow_5(state[i]), q_5[i]), Mul(state[i], q_1[i])), T), T),
        Inv(Neg(q_o)))

\* The gate output of one row: (rc + sum_i(q_5[i]*s[i]^5 + q_1[i]*s[i])) / (-q_o).
next_state_val(state, q_1, q_5, q_o, rc) ==
    Mul(Add(rc, Sum(Tab(LAMBDA i : Add(Mul(pow_5(state[i]), q_5[i]), Mul(state[i], q_1[i])), T), T)),
        Inv(Neg(q_o)))

\* The padding without the 1 after the chunk.
PadInputsNoOne(inputs) ==
    Tab(LAMBDA i : IF i = 1 THEN 0
                   ELSE IF i - 1 <= Len(inputs) THEN inputs[i - 1]
                   ELSE 0, T)

\* once(0).chain(inputs).chain(once(1)).chain(repeat(0)).take(T)
PadInputs(inputs) ==
    Tab(LAMBDA i : IF i = 1 THEN 0
                   ELSE IF i - 1 <= Len(inputs) THEN inputs[i - 1]
                   ELSE IF i - 1 = Len(inputs) + 1 THEN 1
                   ELSE 0, T)

\* pre_round without its assertion.
PreRoundAssertOff(inputs) == TRUE

\* The assertion at the top of pre_round.
PreRoundAssert(inputs) == Len(inputs) <= RATE

\* One pre-round row: out = state[state_idx] + padded input + start[0][state_idx].
pre_round(sp, ctx, inputs, state_idx, state) ==
    IF ~PreRoundAssert(inputs)
    THEN [panic |-> TRUE, ctx |-> ctx, out |-> NoCell]
    ELSE
      LET i == state_idx + 1
          s_val == state[i].val
          input_val == PadInputs(inputs)[i]
          rc_val == ConstStart(sp)[1][i]
          out_val == Add(Add(s_val, input_val), rc_val)
          row == [CurRow(ctx) EXCEPT !.kind = "pre_round", !.first = FALSE,
                                     !.round = 0, !.idx = state_idx,
                                     !.s[i] = s_val,
                                     !.eq = @ \cup {<<Loc(state[i]), <<ctx.offset, i>>>>},
                                     !.input = input_val,
                                     !.q1[i] = 1, !.qi = 1, !.qo = Neg(1),
                                     !.rc = rc_val, !.out = out_val]
      IN [panic |-> FALSE, ctx |-> CtxNext(WriteRow(ctx, row)),
          out |-> Cell(ctx.offset, ColOut, out_val)]

\* The first half reading the start constants from the first vector on.
FullRoundConstantsUnshifted(sp, is_first_half_full, round_idx) ==
    IF is_first_half_full THEN ConstStart(sp)[round_idx + 1]
    ELSE IF round_idx < r_f_half - 1 THEN ConstEnd(sp)[round_idx + 1]
    ELSE Zeros

\* The round constants a full round adds.
FullRoundConstants(sp, is_first_half_full, round_idx) ==
    IF is_first_half_full THEN ConstStart(sp)[round_idx + 1 + 1]
    ELSE IF round_idx < r_f_half - 1 THEN ConstEnd(sp)[round_idx + 1]
    ELSE Zeros

\* Every full round mixing with the dense matrix.
FullRoundMdsDense(sp, is_first_half_full, round_idx) == Mds(sp)

\* The matrix a full round mixes with.
FullRoundMds(sp, is_first_half_full, round_idx) ==
    IF is_first_half_full /\ round_idx = r_f_half - 1 THEN PreSparseMds(sp) ELSE Mds(sp)

\* One full-round row: out = sum_j mds[state_idx][j] * (state[j]^5 + rcs[j]).
full_round(sp, ctx, is_first_half_full, round_idx, state_idx, state) ==
    LET rcs == FullRoundConstants(sp, is_first_half_full, round_idx)
        mds_row == FullRoundMds(sp, is_first_half_full, round_idx)[state_idx + 1]
        rc_val == Sum(Tab(LAMBDA j : Mul(mds_row[j], rcs[j]), T), T)
        q_5_vals == mds_row
        state_vals == Tab(LAMBDA i : state[i].val, T)
        q_o_val == Neg(1)
        out_val == next_state_val(state_vals, Zeros, q_5_vals, q_o_val, rc_val)
        row == [CurRow(ctx) EXCEPT !.kind = "full_round", !.first = is_first_half_full,
                                   !.round = round_idx, !.idx = state_idx,
                                   !.q5 = q_5_vals,
                                   !.s = state_vals,
                                   !.eq = @ \cup {<<Loc(state[i]), <<ctx.offset, i>>>> : i \in 1 .. T},
                                   !.rc = rc_val, !.qo = q_o_val, !.out = out_val]
    IN [panic |-> FALSE, ctx |-> CtxNext(WriteRow(ctx, row)),
        out |-> Cell(ctx.offset, ColOut, out_val)]

\* The sparse row's top entry on every slot: col_hat left out.
PartialQ5RowOnly(state_idx, row_, col_hat) == row_[1]

\* q_5_vals[0] of a partial round: row[0] for slot 0, col_hat[state_idx - 1]
\* for the other slots.
PartialQ5(state_idx, row_, col_hat) ==
    IF state_idx = 0 THEN row_[1] ELSE col_hat[state_idx]

\* One partial-round row: slot 0 mixes with the sparse row, slot i >= 1
\* adds col_hat[i-1] times the S-box output of slot 0 to state[i].
partial_round(sp, ctx, round_idx, state_idx, state) ==
    LET rc == ConstPartial(sp)[round_idx + 1]
        row_ == SparseRow(sp)[round_idx + 1]
        col_hat == SparseColHat(sp)[round_idx + 1]
        state_vals == Tab(LAMBDA i : state[i].val, T)
        q_o_val == Neg(1)
        q_5_vals == Tab(LAMBDA j : IF j # 1 THEN 0
                                   ELSE PartialQ5(state_idx, row_, col_hat), T)
        q_1_vals == Tab(LAMBDA j : IF state_idx = 0
                                   THEN (IF j = 1 THEN 0 ELSE row_[j])
                                   ELSE (IF j = state_idx + 1 THEN 1 ELSE 0), T)
        rc_val == IF state_idx = 0 THEN Mul(row_[1], rc) ELSE Mul(col_hat[state_idx], rc)
        out_val == next_state_val(state_vals, q_1_vals, q_5_vals, Neg(1), rc_val)
        cur == CurRow(ctx)
        row == [cur EXCEPT !.kind = "partial_round", !.first = FALSE,
                           !.round = round_idx, !.idx = state_idx,
                           !.s = state_vals,
                           !.eq = @ \cup {<<Loc(state[i]), <<ctx.offset, i>>>> : i \in 1 .. T},
                           !.q5[1] = q_5_vals[1],
                           !.rc = rc_val,
                           !.q1 = Tab(LAMBDA j :
                                     IF state_idx = 0
                                     THEN (IF j = 1 THEN cur.q1[1] ELSE q_1_vals[j])
                                     ELSE (IF j = state_idx + 1 THEN q_1_vals[j] ELSE cur.q1[j]), T),
                           !.qo = q_o_val, !.out = out_val]
    IN [panic |-> FALSE, ctx |-> CtxNext(WriteRow(ctx, row)),
        out |-> Cell(ctx.offset, ColOut, out_val)]

RECURSIVE PreRoundLoop(_, _, _, _, _, _)
\* for i in 0..T { state.push(pre_round(ctx, inputs.clone(), i, init_state)?) }
PreRoundLoop(sp, ctx, inputs, init_state, i, acc) ==
    IF i = T THEN [panic |-> FALSE, ctx |-> ctx, state |-> acc]
    ELSE Let(pre_round(sp, ctx, inputs, i, init_state), LAMBDA r :
             IF r.panic THEN [panic |-> TRUE, ctx |-> r.ctx, state |-> acc]
             ELSE PreRoundLoop(sp, r.ctx, inputs, init_state, i + 1, Append(acc, r.out)))

RECURSIVE FullSlotLoop(_, _, _, _, _, _, _)
\* for state_idx in 0..T { next_state.push(full_round(ctx, half, round_idx, state_idx, state)?) }
FullSlotLoop(sp, ctx, is_first_half_full, round_idx, state, i, acc) ==
    IF i = T THEN [panic |-> FALSE, ctx |-> ctx, state |-> acc]
    ELSE Let(full_round(sp, ctx, is_first_half_full, round_idx, i, state), LAMBDA r :
             IF r.panic THEN [panic |-> TRUE, ctx |-> r.ctx, state |-> acc]
             ELSE FullSlotLoop(sp, r.ctx, is_first_half_full, round_idx, state, i + 1,
                               Append(acc, r.out)))

RECURSIVE FullRoundLoop(_, _, _, _, _)
\* for round_idx in 0..r_f { ...; state = next_state }
FullRoundLoop(sp, ctx, is_first_half_full, state, round_idx) ==
    IF round_idx = r_f_half THEN [panic |-> FALSE, ctx |-> ctx, state |-> state]
    ELSE Let(FullSlotLoop(sp, ctx, is_first_half_full, round_idx, state, 0, <<>>), LAMBDA r :
             IF r.panic THEN r
             ELSE FullRoundLoop(sp, r.ctx, is_first_half_full, r.state, round_idx + 1))

RECURSIVE PartialSlotLoop(_, _, _, _, _, _)
\* for state_idx in 0..T { next_state.push(partial_round(ctx, round_idx, state_idx, state)?) }
PartialSlotLoop(sp, ctx, round_idx, state, i, acc) ==
    IF i = T THEN [panic |-> FALSE, ctx |-> ctx, state |-> acc]
    ELSE Let(partial_round(sp, ctx, round_idx, i, state), LAMBDA r :
             IF r.panic THEN [panic |-> TRUE, ctx |-> r.ctx, state |-> acc]
             ELSE PartialSlotLoop(sp, r.ctx, round_idx, state, i + 1, Append(acc, r.out)))

RECURSIVE PartialRoundLoop(_, _, _, _)
\* for round_idx in 0..r_p { ...; state = next_state }
PartialRoundLoop(sp, ctx, state, round_idx) ==
    IF round_idx = R_P THEN [panic |-> FALSE, ctx |-> ctx, state |-> state]
    ELSE Let(PartialSlotLoop(sp, ctx, round_idx, state, 0, <<>>), LAMBDA r :
             IF r.panic THEN r
             ELSE PartialRoundLoop(sp, r.ctx, r.state, round_idx + 1))

\* The three round loops of permutation, from the pre-round state on.
Rounds(sp, ctx, state) ==
    Let(FullRoundLoop(sp, ctx, TRUE, state, 0), LAMBDA half1 :
        IF half1.panic THEN half1
        ELSE Let(PartialRoundLoop(sp, half1.ctx, half1.state, 0), LAMBDA part :
                 IF part.panic THEN part
                 ELSE FullRoundLoop(sp, part.ctx, FALSE, part.state, 0)))

\* PoseidonChip::permutation
permutation(sp, ctx, inputs, init_state) ==
    Let(PreRoundLoop(sp, ctx, inputs, init_state, 0, <<>>), LAMBDA pre :
        IF pre.panic THEN pre ELSE Rounds(sp, pre.ctx, pre.state))

RECURSIVE chunks(_, _)
\* buf.chunks(RATE)
chunks(b, n) ==
    IF Len(b) = 0 THEN <<>>
    ELSE IF Len(b) <= n THEN <<b>>
    ELSE <<SubSeq(b, 1, n)>> \o chunks(SubSeq(b, n + 1, Len(b)), n)

\* The trailing permutation for non-empty buffers only.
ExactNonEmpty(b) == Len(b) % RATE = 0 /\ Len(b) > 0

\* let exact = buf.len() % RATE == 0
Exact(b) == Len(b) % RATE = 0

\* The cursor left where the caller's context has it.
SqueezeStartAtCtx(chip_offset, ctx) == ctx.offset

\* The offset squeeze resets the cursor to.
SqueezeStart(chip_offset, ctx) == chip_offset

\* The T "initial state" cells squeeze assigns in the row under the cursor.
AssignInitial(ctx, vals) ==
    LET row == [CurRow(ctx) EXCEPT !.s = vals]
    IN [ctx |-> WriteRow(ctx, row),
        state |-> Tab(LAMBDA i : Cell(ctx.offset, i, vals[i]), T)]

RECURSIVE ChunkLoop(_, _, _, _, _)
\* for chunk in buf.chunks(RATE) { state = permutation(ctx, chunk.to_vec(), state)? }
ChunkLoop(sp, ctx, cs, k, state) ==
    IF k > Len(cs) THEN [panic |-> FALSE, ctx |-> ctx, state |-> state]
    ELSE Let(permutation(sp, ctx, cs[k], state), LAMBDA r :
             IF r.panic THEN r
             ELSE ChunkLoop(sp, r.ctx, cs, k + 1, r.state))

\* Slot 0 returned instead.
SqueezeOutputSlot0(state) == state[1]

\* The cell squeeze returns: state[1].
SqueezeOutput(state) == state[1 + 1]

\* The buffer taken out of the chip (the mem::take left commented out).
SqueezeBufTaken(b) == <<>>

\* The buffer squeeze leaves in the chip (it hashes a clone).
SqueezeBuf(b) == b

\* PoseidonChip::squeeze: the context after the call, the chip's new
\* offset and buffer, and the returned cell.
\* The stored offset left where the squeeze started.
SqueezeEndKept(chip_offset, ctx) == chip_offset

\* self.offset = ctx.offset()
SqueezeEnd(chip_offset, ctx) == ctx.offset

squeeze(sp, b, chip_offset, ctx0) ==
    Let(AssignInitial(CtxReset(ctx0, SqueezeStart(chip_offset, ctx0)), State0), LAMBDA ini :
    Let(ChunkLoop(sp, ini.ctx, chunks(b, RATE), 1, ini.state), LAMBDA full :
    Let(IF Exact(b) /\ ~full.panic THEN permutation(sp, full.ctx, <<>>, full.state) ELSE full,
        LAMBDA last :
            [panic |-> last.panic, ctx |-> last.ctx,
             offset |-> IF last.panic THEN chip_offset ELSE SqueezeEnd(chip_offset, last.ctx),
             buf |-> SqueezeBuf(b),
             out |-> IF last.panic THEN NoCell ELSE SqueezeOutput(last.state)])))

\* PoseidonChip::update
update(b, inputs) == b \o inputs

(* ------------ the permutation by direct field arithmetic --------------- *)
\* Matrix times vector in the field.
MatVec(m, v) == Tab(LAMBDA i : Sum(Tab(LAMBDA j : Mul(m[i][j], v[j]), T), T), T)

\* Step 1: slot i receives state[i] + [0, inputs, 1, 0, ...][i] + start[0][i].
NativePreRound(sp, state, inputs) ==
    Tab(LAMBDA i : Add(Add(state[i],
                           IF i = 1 THEN 0
                           ELSE IF i - 1 <= Len(inputs) THEN inputs[i - 1]
                           ELSE IF i = Len(inputs) + 2 THEN 1
                           ELSE 0),
                       ConstStart(sp)[1][i]), T)

\* A full round: S-box and round constants on every slot, then the mix by m.
NativeFullRound(state, consts, m) ==
    MatVec(m, Tab(LAMBDA j : Add(pow_5(state[j]), consts[j]), T))

\* The sparse matrix of a partial round: first row row, first column below
\* the top entry col_hat, identity elsewhere.
SparseMatrix(row, col_hat) ==
    Tab(LAMBDA i : Tab(LAMBDA j : IF i = 1 THEN row[j]
                                  ELSE IF j = 1 THEN col_hat[i - 1]
                                  ELSE IF i = j THEN 1 ELSE 0, T), T)

\* A partial round: S-box and constant on slot 0 only, then the sparse mix.
NativePartialRound(state, c, row, col_hat) ==
    MatVec(SparseMatrix(row, col_hat),
           Tab(LAMBDA j : IF j = 1 THEN Add(pow_5(state[1]), c) ELSE state[j], T))

RECURSIVE NativeFirstHalf(_, _, _)
\* Step 2: round r adds start[r + 1]; the last round mixes with pre_sparse_mds.
NativeFirstHalf(sp, state, r) ==
    IF r = r_f_half THEN state
    ELSE NativeFirstHalf(sp,
                         NativeFullRound(state, ConstStart(sp)[r + 2],
                                         IF r = r_f_half - 1 THEN PreSparseMds(sp) ELSE Mds(sp)),
                         r + 1)

RECURSIVE NativePartial(_, _, _)
\* Step 3.
NativePartial(sp, state, r) ==
    IF r = R_P THEN state
    ELSE NativePartial(sp,
                       NativePartialRound(state, ConstPartial(sp)[r + 1],
                                          SparseRow(sp)[r + 1], SparseColHat(sp)[r + 1]),
                       r + 1)

RECURSIVE NativeSecondHalf(_, _, _)
\* Step 4: round r adds end[r]; the last round adds no constants.
NativeSecondHalf(sp, state, r) ==
    IF r = r_f_half THEN state
    ELSE NativeSecondHalf(sp,
                          NativeFullRound(state,
                                          IF r < r_f_half - 1 THEN ConstEnd(sp)[r + 1] ELSE Zeros,
                                          Mds(sp)),
                          r + 1)

NativePermutation(sp, state, inputs) ==
    Let(NativePreRound(sp, state, inputs), LAMBDA s0 :
    Let(NativeFirstHalf(sp, s0, 0), LAMBDA s1 :
    Let(NativePartial(sp, s1, 0), LAMBDA s2 : NativeSecondHalf(sp, s2, 0))))

RECURSIVE NativeChunks(_, _, _)
\* One permutation per consecutive RATE-sized chunk of b, in order.
NativeChunks(sp, state, b) ==
    IF Len(b) = 0 THEN state
    ELSE IF Len(b) <= RATE THEN NativePermutation(sp, state, b)
    ELSE Let(NativePermutation(sp, state, SubSeq(b, 1, RATE)), LAMBDA s1 :
             NativeChunks(sp, s1, SubSeq(b, RATE + 1, Len(b))))

\* The sponge by direct arithmetic: the chunk permutations from the initial
\* state, then one permutation of the empty chunk when the length is a
\* multiple of RATE.
NativeSqueeze(sp, b) ==
    Let(NativeChunks(sp, State0, b), LAMBDA s1 :
        IF Len(b) % RATE = 0 THEN NativePermutation(sp, s1, <<>>) ELSE s1)

(* ---------------- the accumulator inputs and their absorb -------------- *)
\* ROTrait::absorb_field: one more element on the oracle's stream.
absorb_field(r, x) == Append(r, x)

\* ROTrait::absorb_field_iter: the elements in iteration order.
absorb_field_iter(r, xs) == r \o xs

\* BigUintPoint: the limbs of x, then the limbs of y.
absorb_into_BigUintPoint(self, r) == absorb_field_iter(absorb_field_iter(r, self.x), self.y)

RECURSIVE absorb_iter_points(_, _, _)
\* ROTrait::absorb_iter over points: each absorbs itself, in order, from k on.
absorb_iter_points(r, points, k) ==
    IF k > Len(points) THEN r
    ELSE absorb_iter_points(absorb_into_BigUintPoint(points[k], r), points, k + 1)

RECURSIVE Flatten(_)
\* instances.iter().flatten()
Flatten(cols) == IF cols = <<>> THEN <<>> ELSE Head(cols) \o Flatten(Tail(cols))

\* AbsorbInRO for NativePlonkInstance
absorb_into_NativePlonkInstance(self, r) ==
    absorb_field_iter(
        absorb_field_iter(absorb_iter_points(r, self.W_commitments, 1), Flatten(self.instances)),
        self.challenges)

\* The error scalar absorbed before the betas.
absorb_into_ProtoGalaxyAccumulatorInstance_e_first(self, r) ==
    absorb_field_iter(absorb_field(absorb_into_NativePlonkInstance(self.ins, r), self.e),
                      self.betas)

\* AbsorbInRO for ProtoGalaxyAccumulatorInstance
absorb_into_ProtoGalaxyAccumulatorInstance(self, r) ==
    absorb_field(absorb_field_iter(absorb_into_NativePlonkInstance(self.ins, r), self.betas),
                 self.e)

\* How the scalars of an instance are filled: each its own value, all zero,
\* or two values alternating.
Fills == {0, 1, 2}

Scalar(fill, label) == IF fill = 0 THEN label ELSE IF fill = 1 THEN 0 ELSE label % 2

\* The ProtoGalaxyAccumulatorInstance of a shape and a fill.
MakeAcc(nW, colLens, nCh, nB, fill) ==
    [ins |-> [W_commitments |->
                  Tab(LAMBDA i : [x |-> Tab(LAMBDA j : Scalar(fill, 100 + 10 * i + j), LimbsCount),
                                  y |-> Tab(LAMBDA j : Scalar(fill, 200 + 10 * i + j), LimbsCount)],
                      nW),
              instances |->
                  Tab(LAMBDA c : Tab(LAMBDA k : Scalar(fill, 300 + 10 * c + k), colLens[c]),
                      Len(colLens)),
              challenges |-> Tab(LAMBDA k : Scalar(fill, 400 + k), nCh)],
     betas |-> Tab(LAMBDA k : Scalar(fill, 500 + k), nB),
     e |-> Scalar(fill, 600)]

NoAcc == MakeAcc(0, <<>>, 0, 0, 1)

(* --------------------- the support track and the Input ----------------- *)
\* flat_map(|(x, y)| [x, y]) over coordinate pairs
FlatPairs(pairs) == Flatten(pairs)

\* AbsorbInRO for SupportPlonkInstance
absorb_into_SupportPlonkInstance(self, r) ==
    absorb_field_iter(absorb_field_iter(r, FlatPairs(self.W_commitments)),
                      Flatten(self.instances) \o self.challenges)

\* The trailing zero left out.
absorb_into_SangriaAccumulatorInstance_no_zero(self, r) ==
    absorb_field(
        absorb_field(
            absorb_field(absorb_into_SupportPlonkInstance(self.ins, r), self.u),
            self.E_commitment[1]),
        self.E_commitment[2])

\* AbsorbInRO for SangriaAccumulatorInstance
absorb_into_SangriaAccumulatorInstance(self, r) ==
    absorb_field(
        absorb_field(
            absorb_field(
                absorb_field(absorb_into_SupportPlonkInstance(self.ins, r), self.u),
                self.E_commitment[1]),
            self.E_commitment[2]),
        0)

\* F::from(step as u64)
FromU64(n) == n % Q

\* The coefficients of poly_K absorbed after z_i.
absorb_into_Input_with_proof(self, r) ==
    absorb_field_iter(
        absorb_field_iter(
            absorb_field_iter(
                absorb_field(
                    absorb_field(
                        absorb_field(
                            absorb_into_SangriaAccumulatorInstance(
                                self.support_trace.input_accumulator,
                                absorb_into_ProtoGalaxyAccumulatorInstance(
                                    self.self_trace.input_accumulator, r)),
                            self.pp_digest[1]),
                        self.pp_digest[2]),
                    FromU64(self.step)),
                self.z_0),
            self.z_i),
        self.self_trace.proof.poly_K)

\* z_i absorbed before z_0.
absorb_into_Input_z_swapped(self, r) ==
    absorb_field_iter(
        absorb_field_iter(
            absorb_field(
                absorb_field(
                    absorb_field(
                        absorb_into_SangriaAccumulatorInstance(
                            self.support_trace.input_accumulator,
                            absorb_into_ProtoGalaxyAccumulatorInstance(
                                self.self_trace.input_accumulator, r)),
                        self.pp_digest[1]),
                    self.pp_digest[2]),
                FromU64(self.step)),
            self.z_i),
        self.z_0)

\* AbsorbInRO for Input
absorb_into_Input(self, r) ==
    absorb_field_iter(
        absorb_field_iter(
            absorb_field(
                absorb_field(
                    absorb_field(
                        absorb_into_SangriaAccumulatorInstance(
                            self.support_trace.input_accumulator,
                            absorb_into_ProtoGalaxyAccumulatorInstance(
                                self.self_trace.input_accumulator, r)),
                        self.pp_digest[1]),
                    self.pp_digest[2]),
                FromU64(self.step)),
            self.z_0),
        self.z_i)

\* poly_F absorbed before poly_K.
absorb_into_SelfTrace_F_first(self, r) ==
    absorb_field_iter(
        absorb_into_NativePlonkInstance(
            self.incoming,
            absorb_into_ProtoGalaxyAccumulatorInstance(self.input_accumulator, r)),
        self.proof.poly_F \o self.proof.poly_K)

\* AbsorbInRO for SelfTrace
absorb_into_SelfTrace(self, r) ==
    absorb_field_iter(
        absorb_into_NativePlonkInstance(
            self.incoming,
            absorb_into_ProtoGalaxyAccumulatorInstance(self.input_accumulator, r)),
        self.proof.poly_K \o self.proof.poly_F)

\* AbsorbInRO for SupportIncoming
absorb_into_SupportIncoming(self, r) ==
    absorb_field_iter(absorb_into_SupportPlonkInstance(self.instance, r), FlatPairs(self.proof))

RECURSIVE absorb_iter_incoming(_, _, _)
\* ROTrait::absorb_iter over incoming entries: each absorbs itself, in
\* order, from k on.
absorb_iter_incoming(r, incoming, k) ==
    IF k > Len(incoming) THEN r
    ELSE absorb_iter_incoming(absorb_into_SupportIncoming(incoming[k], r), incoming, k + 1)

\* AbsorbInRO for SupportTrace
absorb_into_SupportTrace(self, r) ==
    absorb_iter_incoming(absorb_into_SangriaAccumulatorInstance(self.input_accumulator, r),
                         self.incoming, 1)

\* vec![F::ZERO; n]
ZeroVec(n) == Tab(LAMBDA k : 0, n)

\* Every column given the length of the first one.
ZeroColsFirstLen(cols) == Tab(LAMBDA c : ZeroVec(Len(cols[1])), Len(cols))

\* instances.iter().map(|v| vec![F::ZERO; v.len()]).collect()
ZeroCols(cols) == Tab(LAMBDA c : ZeroVec(Len(cols[c])), Len(cols))

\* BigUintPoint::identity(): every limb of both coordinates zero
BigUintPoint_identity == [x |-> ZeroVec(LimbsCount), y |-> ZeroVec(LimbsCount)]

\* UnivariatePoly::new_zeroed(len)
new_zeroed(len) == ZeroVec(len)

\* vec![(F::ZERO, F::ZERO); n]
ZeroPairs(n) == Tab(LAMBDA k : <<0, 0>>, n)

\* The NativePlonkInstance literal of get_without_witness
ZeroedNativeIns(ins) ==
    [W_commitments |-> Tab(LAMBDA i : BigUintPoint_identity, Len(ins.W_commitments)),
     instances |-> ZeroCols(ins.instances),
     challenges |-> ZeroVec(Len(ins.challenges))]

\* The SupportPlonkInstance literal of get_without_witness
ZeroedSupportIns(ins) ==
    [W_commitments |-> ZeroPairs(Len(ins.W_commitments)),
     instances |-> ZeroCols(ins.instances),
     challenges |-> ZeroVec(Len(ins.challenges))]

\* Input::get_without_witness
get_without_witness(self) ==
    [pp_digest |-> <<0, 0>>,
     self_trace |->
         [input_accumulator |->
              [ins |-> ZeroedNativeIns(self.self_trace.input_accumulator.ins),
               betas |-> ZeroVec(Len(self.self_trace.input_accumulator.betas)),
               e |-> 0],
          incoming |-> ZeroedNativeIns(self.self_trace.incoming),
          proof |-> [poly_F |-> new_zeroed(Len(self.self_trace.proof.poly_F)),
                     poly_K |-> new_zeroed(Len(self.self_trace.proof.poly_K))]],
     support_trace |->
         [input_accumulator |->
              [ins |-> ZeroedSupportIns(self.support_trace.input_accumulator.ins),
               E_commitment |-> <<0, 0>>,
               u |-> 0],
          incoming |->
              Tab(LAMBDA n : [instance |-> ZeroedSupportIns(self.support_trace.incoming[n].instance),
                              proof |-> ZeroPairs(Len(self.support_trace.incoming[n].proof))],
                  Len(self.support_trace.incoming))],
     step |-> 0,
     z_0 |-> ZeroVec(Arity),
     z_i |-> ZeroVec(Arity)]

(* ----------------- the objects of the folding schemes ------------------- *)
\* A curve point: the identity, or a finite point with its coordinates.
Identity == [inf |-> TRUE, x |-> 0, y |-> 0]

Pt(x, y) == [inf |-> FALSE, x |-> x, y |-> y]

\* CurveAffine::coordinates: none for the identity
coordinates(p) == [some |-> ~p.inf, val |-> <<p.x, p.y>>]

\* util::fe_to_fe: none for a value the target field cannot hold
fe_to_fe(v) == [some |-> v < Q, val |-> v % Q]

\* The limbs of a coordinate, least significant first.
LimbBase == 100

Limbs(v) == Tab(LAMBDA j : (v \div (LimbBase ^ (j - 1))) % LimbBase, LimbsCount)

\* BigUintPoint::new: an error for the identity
BigUintPoint_new(p) == [some |-> ~p.inf, val |-> [x |-> Limbs(p.x), y |-> Limbs(p.y)]]

\* .iter().map(..).collect() of the three conversions, and the unwrap of
\* each element: one element without a value panics.
CoordsOf(points) == Tab(LAMBDA i : coordinates(points[i]), Len(points))

ConvertAll(xs) == Tab(LAMBDA k : fe_to_fe(xs[k]), Len(xs))

BigUintPointsOf(points) == Tab(LAMBDA i : BigUintPoint_new(points[i]), Len(points))

AnyNone(opts) == \E i \in 1 .. Len(opts) : ~opts[i].some

Unwrapped(opts) == Tab(LAMBDA i : opts[i].val, Len(opts))

\* The number of consistency markers of the support circuit.
INSTANCES_LEN == 2

\* nums 0 and 1 map to 0, so no challenges give no commitment.
SPS_W_commitments_len_plain(num_challenges) == num_challenges

\* The match on num_challenges of SelfTrace::new_initial; 0 stands for the
\* unreachable arm.
SPS_W_commitments_len(num_challenges) ==
    CASE num_challenges = 0 -> 1
      [] num_challenges = 1 -> 1
      [] num_challenges = 2 -> 2
      [] num_challenges = 3 -> 3
      [] OTHER -> 0

\* PolyContext::new(S, 1): the counts it derives from the structure
PolyContext_new(S, n) ==
    [betas_count |-> S.betas_count,
     fft_points_count_F |-> S.fft_points_count_F,
     fft_points_count_K |-> S.fft_points_count_K]

\* SelfTrace::new_initial
SelfTrace_new_initial(S) ==
    [panic |-> S.num_challenges > 3,
     val |->
         [input_accumulator |->
              [ins |-> [W_commitments |->
                            Tab(LAMBDA i : BigUintPoint_identity,
                                SPS_W_commitments_len(S.num_challenges)),
                        instances |-> Tab(LAMBDA c : ZeroVec(S.num_io[c]), Len(S.num_io)),
                        challenges |-> ZeroVec(S.num_challenges)],
               betas |-> ZeroVec(PolyContext_new(S, 1).betas_count),
               e |-> 0],
          incoming |->
              [W_commitments |->
                   Tab(LAMBDA i : BigUintPoint_identity, SPS_W_commitments_len(S.num_challenges)),
               instances |-> Tab(LAMBDA c : ZeroVec(S.num_io[c]), Len(S.num_io)),
               challenges |-> ZeroVec(S.num_challenges)],
          proof |-> [poly_F |-> new_zeroed(PolyContext_new(S, 1).fft_points_count_F),
                     poly_K |-> new_zeroed(PolyContext_new(S, 1).fft_points_count_K)]]]

\* SelfTrace::W_commitments_len
W_commitments_len(self) == Len(self.input_accumulator.ins.W_commitments)

\* Nothing taken off: one cross-term commitment too many.
saturating_sub_nothing(a, b) == a

\* usize::saturating_sub
saturating_sub(a, b) == IF a < b THEN 0 ELSE a - b

\* The instance SupportTrace::new_initial projects out of the supplied one.
SupportTrace_new_initial_ins(instance) ==
    [W_commitments |-> Unwrapped(CoordsOf(instance.W_commitments)),
     instances |-> Tab(LAMBDA c : Unwrapped(ConvertAll(instance.instances[c])),
                       Len(instance.instances)),
     challenges |-> Unwrapped(ConvertAll(instance.challenges))]

\* SupportTrace::new_initial
SupportTrace_new_initial(S, instance, len) ==
    [panic |-> \/ AnyNone(CoordsOf(instance.W_commitments))
               \/ \E c \in 1 .. Len(instance.instances) : AnyNone(ConvertAll(instance.instances[c]))
               \/ AnyNone(ConvertAll(instance.challenges)),
     val |->
         [input_accumulator |->
              [ins |-> SupportTrace_new_initial_ins(instance),
               E_commitment |-> <<0, 0>>,
               u |-> 0],
          incoming |->
              Tab(LAMBDA n : [instance |-> SupportTrace_new_initial_ins(instance),
                              proof |-> ZeroPairs(saturating_sub(S.degree_for_folding, 1))],
                  len)]]

\* Input::new_initial: the self trace first, then the support trace; a
\* panic of either leaves no Input.
Input_new_initial(native, support, instance) ==
    IF SelfTrace_new_initial(native).panic
    THEN [panic |-> TRUE, val |-> <<>>]
    ELSE IF SupportTrace_new_initial(support, instance,
                                     W_commitments_len(SelfTrace_new_initial(native).val)).panic
    THEN [panic |-> TRUE, val |-> <<>>]
    ELSE [panic |-> FALSE,
          val |-> [pp_digest |-> <<0, 0>>,
                   support_trace |->
                       SupportTrace_new_initial(
                           support, instance,
                           W_commitments_len(SelfTrace_new_initial(native).val)).val,
                   self_trace |-> SelfTrace_new_initial(native).val,
                   step |-> 0,
                   z_0 |-> ZeroVec(Arity),
                   z_i |-> ZeroVec(Arity)]]

\* The column lengths a size stands for: sizes 1, 2, 3 give <<2>>, <<0, 1>>,
\* <<1, 2, 0>>.
ColsOf(n) == Tab(LAMBDA c : (n + c) % 3, n)

\* A NativePlonkInstance of a shape and a fill; base tells its scalars
\* from those of the other instances of the same Input.
MakeNativeIns(base, nW, colLens, nCh, fill) ==
    [W_commitments |->
         Tab(LAMBDA i : [x |-> Tab(LAMBDA j : Scalar(fill, base + 100 + 10 * i + j), LimbsCount),
                         y |-> Tab(LAMBDA j : Scalar(fill, base + 200 + 10 * i + j), LimbsCount)],
             nW),
     instances |->
         Tab(LAMBDA c : Tab(LAMBDA k : Scalar(fill, base + 300 + 10 * c + k), colLens[c]),
             Len(colLens)),
     challenges |-> Tab(LAMBDA k : Scalar(fill, base + 400 + k), nCh)]

\* A SupportPlonkInstance of a shape and a fill.
MakeSupportIns(base, nW, colLens, nCh, fill) ==
    [W_commitments |->
         Tab(LAMBDA i : <<Scalar(fill, base + 100 + 10 * i), Scalar(fill, base + 200 + 10 * i)>>,
             nW),
     instances |->
         Tab(LAMBDA c : Tab(LAMBDA k : Scalar(fill, base + 300 + 10 * c + k), colLens[c]),
             Len(colLens)),
     challenges |-> Tab(LAMBDA k : Scalar(fill, base + 400 + k), nCh)]

\* The Input of three sizes, a step counter and a fill.  The sizes are
\* spread over the fields so that no two neighbouring vectors follow the
\* same size.
MakeInput(a, b, c, step, fill) ==
    [pp_digest |-> <<Scalar(fill, 8001), Scalar(fill, 8002)>>,
     self_trace |->
         [input_accumulator |-> MakeAcc(a, ColsOf(b), c, b, fill),
          incoming |-> MakeNativeIns(1000, c, ColsOf(a), b, fill),
          proof |-> [poly_F |-> Tab(LAMBDA k : Scalar(fill, 1500 + k), a + 1),
                     poly_K |-> Tab(LAMBDA k : Scalar(fill, 1600 + k), b + 2)]],
     support_trace |->
         [input_accumulator |->
              [ins |-> MakeSupportIns(2000, b, ColsOf(c), a, fill),
               E_commitment |-> <<Scalar(fill, 2600), Scalar(fill, 2601)>>,
               u |-> Scalar(fill, 2500)],
          incoming |->
              Tab(LAMBDA n : [instance |-> MakeSupportIns(3000 + 1000 * n, a, ColsOf(b), c, fill),
                              proof |-> Tab(LAMBDA k : <<Scalar(fill, 3000 + 1000 * n + 500 + k),
                                                         Scalar(fill, 3000 + 1000 * n + 600 + k)>>,
                                            (b + n) % 3)],
                  c)],
     step |-> step,
     z_0 |-> Tab(LAMBDA k : Scalar(fill, 8100 + k), Arity),
     z_i |-> Tab(LAMBDA k : Scalar(fill, 8200 + k), Arity)]

Inputs ==
    {MakeInput(a, b, c, step, fill) :
        a \in 0 .. MaxDim, b \in 0 .. MaxDim, c \in 0 .. MaxDim,
        step \in 0 .. MaxStep, fill \in Fills}

\* NativePlonkInstance::new
NativePlonkInstance_new(acc) ==
    [panic |-> AnyNone(BigUintPointsOf(acc.W_commitments)),
     val |-> [W_commitments |-> Unwrapped(BigUintPointsOf(acc.W_commitments)),
              instances |-> acc.instances,
              challenges |-> acc.challenges]]

\* ProtoGalaxyAccumulatorInstance::new
ProtoGalaxyAccumulatorInstance_new(acc) ==
    [panic |-> NativePlonkInstance_new(acc.ins).panic,
     val |-> [ins |-> NativePlonkInstance_new(acc.ins).val, betas |-> acc.betas, e |-> acc.e]]

\* SupportPlonkInstance::new
SupportPlonkInstance_new(acc) ==
    [panic |-> \/ AnyNone(CoordsOf(acc.W_commitments))
               \/ \E c \in 1 .. Len(acc.instances) : AnyNone(ConvertAll(acc.instances[c]))
               \/ AnyNone(ConvertAll(acc.challenges)),
     val |-> [W_commitments |-> Unwrapped(CoordsOf(acc.W_commitments)),
              instances |-> Tab(LAMBDA c : Unwrapped(ConvertAll(acc.instances[c])),
                                Len(acc.instances)),
              challenges |-> Unwrapped(ConvertAll(acc.challenges))]]

\* The assertion on the hash accumulator left out.
HashAccIsNoneUnchecked(acc) == TRUE

\* assert_eq!(step_circuit_instances_hash_accumulator, &SCInstancesHashAcc::None)
HashAccIsNone(acc) == acc.step_circuit_instances_hash_accumulator = "None"

\* SangriaAccumulatorInstance::new
SangriaAccumulatorInstance_new(acc) ==
    [panic |-> \/ ~HashAccIsNone(acc)
               \/ AnyNone(CoordsOf(acc.W_commitments))
               \/ AnyNone(ConvertAll(acc.consistency_markers))
               \/ AnyNone(ConvertAll(acc.challenges))
               \/ ~coordinates(acc.E_commitment).some
               \/ ~fe_to_fe(acc.u).some,
     val |-> [ins |-> [W_commitments |-> Unwrapped(CoordsOf(acc.W_commitments)),
                       instances |-> <<Unwrapped(ConvertAll(acc.consistency_markers))>>,
                       challenges |-> Unwrapped(ConvertAll(acc.challenges))],
              E_commitment |-> coordinates(acc.E_commitment).val,
              u |-> fe_to_fe(acc.u).val]]

\* SupportIncoming::new
SupportIncoming_new(instance, proof) ==
    [panic |-> AnyNone(CoordsOf(proof)) \/ SupportPlonkInstance_new(instance).panic,
     val |-> [instance |-> SupportPlonkInstance_new(instance).val,
              proof |-> Unwrapped(CoordsOf(proof))]]

\* InputBuilder::build: a panic of one constructor leaves no Input.
build(self) ==
    IF \/ ProtoGalaxyAccumulatorInstance_new(self.self_acc).panic
       \/ NativePlonkInstance_new(self.self_incoming).panic
       \/ SangriaAccumulatorInstance_new(self.support_acc).panic
       \/ \E n \in 1 .. Len(self.support_incoming) :
              SupportIncoming_new(self.support_incoming[n].instance,
                                  self.support_incoming[n].proof).panic
    THEN [panic |-> TRUE, val |-> <<>>]
    ELSE [panic |-> FALSE,
          val |-> [pp_digest |-> self.pp_digest,
                   step |-> self.step,
                   z_0 |-> self.z_0,
                   z_i |-> self.z_i,
                   self_trace |->
                       [input_accumulator |->
                            ProtoGalaxyAccumulatorInstance_new(self.self_acc).val,
                        incoming |-> NativePlonkInstance_new(self.self_incoming).val,
                        proof |-> self.self_proof],
                   support_trace |->
                       [input_accumulator |->
                            SangriaAccumulatorInstance_new(self.support_acc).val,
                        incoming |->
                            Tab(LAMBDA n : SupportIncoming_new(self.support_incoming[n].instance,
                                                               self.support_incoming[n].proof).val,
                                Len(self.support_incoming))]]]

\* The ways the values of an object of a folding scheme are filled: every
\* scalar its own value, every scalar zero, every scalar zero and every
\* point the identity, a scalar the target field cannot hold.
Modes == {"vals", "zero", "ident", "big"}

ScalarOf(mode, label) ==
    IF mode = "vals" THEN label ELSE IF mode = "big" THEN Q + label ELSE 0

PointOf(mode, label) == IF mode = "ident" THEN Identity ELSE Pt(label, label + 100)

\* A PlonkInstance of a scheme: commitment points, columns, challenges.
MakePlonkInstance(base, nW, colLens, nCh, mode) ==
    [W_commitments |-> Tab(LAMBDA i : PointOf(mode, base + 100 + 10 * i), nW),
     instances |->
         Tab(LAMBDA c : Tab(LAMBDA k : ScalarOf(mode, base + 300 + 10 * c + k), colLens[c]),
             Len(colLens)),
     challenges |-> Tab(LAMBDA k : ScalarOf(mode, base + 400 + k), nCh)]

\* The shape of a native circuit: plonk::PlonkStructure with the counts
\* PolyContext derives from it.
NativeShape(nch, a) ==
    [num_challenges |-> nch,
     num_io |-> ColsOf(a),
     betas_count |-> a,
     fft_points_count_F |-> a + 1,
     fft_points_count_K |-> a + 2]

\* The shape of a support circuit: the marker column, extra further
\* columns, its challenges, its witness commitments, its degree for folding.
SupportShape(deg, extra, a) ==
    [num_io |-> <<INSTANCES_LEN>> \o Tab(LAMBDA c : c, extra),
     num_challenges |-> a,
     W_len |-> (a + 1) % 3,
     degree_for_folding |-> deg]

\* A FoldablePlonkInstance of a support shape.
MakeFoldable(base, S, mode) ==
    MakePlonkInstance(base, S.W_len, S.num_io, S.num_challenges, mode)

\* The arguments of Input::new_initial.
Setups ==
    {[native |-> NativeShape(nch, a),
      support |-> SupportShape(deg, extra, b),
      instance |-> MakeFoldable(3000, SupportShape(deg, extra, b), mode)] :
        nch \in 0 .. MaxNativeChallenges, a \in 0 .. MaxDim, b \in 0 .. MaxDim,
        deg \in 0 .. MaxDegree, extra \in 0 .. 1, mode \in Modes}

\* The ways the objects handed to a builder depart from the objects of the
\* folding schemes for the circuit shapes: not at all; a length that is
\* not the shape's; a point that is the identity; a scalar or a hash
\* accumulator the projection does not take.
Variants ==
    {"none",
     "incoming_fewer", "incoming_more", "native_cols", "cross_terms", "native_W",
     "support_identity", "E_identity", "cross_identity", "native_identity",
     "incoming_identity", "scalar", "hash_acc"}

\* What the folding schemes produce for a shape: one witness commitment per
\* round of the native circuit, and one cross-term commitment per degree
\* above the first.
RoundsOf(N) == IF N.num_challenges <= 1 THEN 1 ELSE N.num_challenges

CrossTermsOf(S) == IF S.degree_for_folding = 0 THEN 0 ELSE S.degree_for_folding - 1

ModeIf(cond) == IF cond THEN "ident" ELSE "vals"

PlusIf(cond) == IF cond THEN 1 ELSE 0

\* The InputBuilder for the native shape N and the support shape S.
MakeBuilder(N, S, v) ==
    [pp_digest |-> <<8001, 8002>>,
     step |-> Len(N.num_io),
     self_acc |->
         [ins |-> MakePlonkInstance(0,
                                    RoundsOf(N)
                                    + PlusIf(v = "native_W"),
                                    N.num_io, N.num_challenges,
                                    ModeIf(v = "native_identity")),
          betas |-> Tab(LAMBDA k : 500 + k, N.betas_count),
          e |-> 600],
     self_incoming |->
         MakePlonkInstance(1000, RoundsOf(N),
                           IF v = "native_cols" THEN N.num_io \o <<1>> ELSE N.num_io,
                           N.num_challenges, "vals"),
     self_proof |-> [poly_F |-> Tab(LAMBDA k : 1500 + k, N.fft_points_count_F),
                     poly_K |-> Tab(LAMBDA k : 1600 + k, N.fft_points_count_K)],
     support_acc |->
         [W_commitments |->
              Tab(LAMBDA i : PointOf(ModeIf(v = "support_identity"), 2100 + 10 * i), S.W_len),
          consistency_markers |-> Tab(LAMBDA k : 2300 + k, INSTANCES_LEN),
          challenges |-> Tab(LAMBDA k : 2400 + k, S.num_challenges),
          E_commitment |-> IF v = "E_identity" THEN Identity ELSE Pt(2600, 2601),
          u |-> IF v = "scalar" THEN Q + 2500 ELSE 2500,
          step_circuit_instances_hash_accumulator |->
              IF v = "hash_acc" THEN "Hash" ELSE "None"],
     support_incoming |->
         Tab(LAMBDA n :
                 [instance |-> MakeFoldable(3000 + 1000 * n, S,
                                            ModeIf(v = "incoming_identity")),
                  proof |-> Tab(LAMBDA k : PointOf(ModeIf(v = "cross_identity"),
                                                   3500 + 1000 * n + 10 * k),
                                CrossTermsOf(S)
                                + PlusIf(v = "cross_terms"))],
             IF v = "incoming_fewer" THEN RoundsOf(N) - 1
             ELSE RoundsOf(N) + PlusIf(v = "incoming_more")),
     z_0 |-> Tab(LAMBDA k : 8100 + k, Arity),
     z_i |-> Tab(LAMBDA k : 8200 + k, Arity)]

\* The builders, each with the circuit shapes fixed at setup.
Builders ==
    {[native |-> NativeShape(nch, a),
      support |-> SupportShape(deg, 0, a),
      builder |-> MakeBuilder(NativeShape(nch, a), SupportShape(deg, 0, a), v)] :
        nch \in 0 .. 3, a \in 0 .. MaxDim, deg \in 0 .. MaxDegree, v \in Variants}

(* ------------------------------- state -------------------------------- *)
VARIABLES
    spec,       \* PoseidonChip.spec: which parameter tables the chip holds
    buf,        \* PoseidonChip.buf
    offset,     \* PoseidonChip.offset
    region,     \* rows of the region the chip's squeeze calls assign
    call,       \* the last call on the chip: its arguments and what it returned
    absorbed,   \* every element list passed to update, concatenated in call order
    nsq,        \* number of squeeze calls so far
    pgacc,      \* a ProtoGalaxyAccumulatorInstance
    ro,         \* the elements a random oracle has absorbed, in order
    arg,        \* the value an operation of the recursive input is applied to
    res         \* the operation applied to arg and what it returned

vars == <<spec, buf, offset, region, call, absorbed, nsq, pgacc, ro, arg, res>>

NoArg == [kind |-> "none", val |-> <<>>]

NoRes == [op |-> "none", panic |-> FALSE, val |-> <<>>]

chipVars == <<spec, buf, offset, region, call, absorbed, nsq>>

RECURSIVE SeqsUpTo(_, _)
\* The sequences over S of length at most n.
SeqsUpTo(S, n) ==
    IF n = 0 THEN {<<>>}
    ELSE LET shorter == SeqsUpTo(S, n - 1)
         IN shorter \cup {Append(q, x) : q \in {r \in shorter : Len(r) = n - 1}, x \in S}

NoCall == [op |-> "new", inputs |-> <<>>, init |-> <<>>, ctx_offset |-> 0, start |-> 0,
           log |-> <<>>, out |-> NoCell, state |-> <<>>, rows |-> <<>>, panic |-> FALSE]

\* PoseidonChip::new: an empty buffer and offset 0.
Init ==
    /\ spec \in Specs
    /\ buf = <<>>
    /\ offset = 0
    /\ region = <<>>
    /\ call = NoCall
    /\ absorbed = <<>>
    /\ nsq = 0
    /\ pgacc = NoAcc
    /\ ro = <<>>
    /\ arg = NoArg
    /\ res = NoRes

\* pchip.update(inputs)
Update ==
    \E inputs \in SeqsUpTo(Elems, MaxUpd) :
        /\ ~call.panic
        /\ Len(buf) + Len(inputs) <= MaxBuf
        /\ buf' = update(buf, inputs)
        /\ absorbed' = absorbed \o inputs
        /\ call' = [NoCall EXCEPT !.op = "update", !.inputs = inputs, !.start = offset]
        /\ UNCHANGED <<spec, offset, region, nsq, pgacc, ro, arg, res>>

\* pchip.squeeze(ctx), the caller's context standing at row ctx_offset of
\* the chip's region.
Squeeze ==
    \E ctx_offset \in 0 .. MaxCtxOffset :
        /\ ~call.panic
        /\ nsq < MaxSqueeze
        /\ \E r \in {squeeze(spec, buf, offset, NewCtx(region, ctx_offset))} :
              /\ buf' = r.buf
              /\ offset' = r.offset
              /\ region' = r.ctx.rows
              /\ call' = [NoCall EXCEPT !.op = "squeeze", !.ctx_offset = ctx_offset,
                                        !.start = offset, !.log = r.ctx.log, !.out = r.out,
                                        !.panic = r.panic]
        /\ nsq' = nsq + 1
        /\ UNCHANGED <<spec, absorbed, pgacc, ro, arg, res>>

\* pchip.permutation(ctx, inputs, init_state) called directly: the caller
\* has assigned the T cells of init_state in the row under the cursor of a
\* region of its own.  permutation takes &self and reads only the chip's
\* config and spec, so the call is made first, on a chip just constructed.
Permutation ==
    \E inputs \in SeqsUpTo(Elems, RATE + 1), init \in [1 .. T -> Elems],
       ctx_offset \in 0 .. MaxCtxOffset :
        /\ ~call.panic
        /\ call.op = "new"
        /\ \E ini \in {AssignInitial(NewCtx(<<>>, ctx_offset), init)} :
           \E r \in {permutation(spec, ini.ctx, inputs, ini.state)} :
              call' = [NoCall EXCEPT !.op = "permutation", !.inputs = inputs, !.init = init,
                                     !.ctx_offset = ctx_offset, !.start = ctx_offset,
                                     !.log = r.ctx.log, !.state = r.state,
                                     !.rows = r.ctx.rows, !.panic = r.panic]
        /\ UNCHANGED <<spec, buf, offset, region, absorbed, nsq, pgacc, ro, arg, res>>

Next == Update \/ Squeeze \/ Permutation

Spec == Init /\ [][Next]_vars

\* An accumulator instance of any shape and fill, and a fresh oracle.
InitInput ==
    /\ spec = 0
    /\ buf = <<>>
    /\ offset = 0
    /\ region = <<>>
    /\ call = NoCall
    /\ absorbed = <<>>
    /\ nsq = 0
    /\ \E nW \in 0 .. MaxPoints, colLens \in SeqsUpTo(0 .. MaxColLen, MaxCols),
          nCh \in 0 .. MaxChallenges, nB \in 0 .. MaxBetas, fill \in Fills :
           pgacc = MakeAcc(nW, colLens, nCh, nB, fill)
    /\ ro = <<>>
    /\ arg = NoArg
    /\ res = NoRes

\* ro.absorb(&accumulator) on a fresh oracle
AbsorbAccumulator ==
    /\ ro = <<>>
    /\ ro' = absorb_into_ProtoGalaxyAccumulatorInstance(pgacc, ro)
    /\ UNCHANGED <<chipVars, pgacc, arg, res>>

NextInput == AbsorbAccumulator

SpecInput == InitInput /\ [][NextInput]_vars

\* A value of the recursive input, and no operation applied yet.
InitAssembly ==
    /\ spec = 0
    /\ buf = <<>>
    /\ offset = 0
    /\ region = <<>>
    /\ call = NoCall
    /\ absorbed = <<>>
    /\ nsq = 0
    /\ pgacc = NoAcc
    /\ ro = <<>>
    /\ \/ \E x \in Inputs : arg = [kind |-> "input", val |-> x]
       \/ \E x \in Setups : arg = [kind |-> "setup", val |-> x]
       \/ \E x \in Builders : arg = [kind |-> "builder", val |-> x]
    /\ res = NoRes

\* ro.absorb(&input.support_trace.input_accumulator) on a fresh oracle
AbsorbSangria ==
    /\ arg.kind = "input" /\ res.op = "none"
    /\ res' = [op |-> "absorb_sangria", panic |-> FALSE,
               val |-> absorb_into_SangriaAccumulatorInstance(
                           arg.val.support_trace.input_accumulator, <<>>)]
    /\ UNCHANGED <<chipVars, pgacc, ro, arg>>

\* ro.absorb(&input) on a fresh oracle
AbsorbInput ==
    /\ arg.kind = "input" /\ res.op = "none"
    /\ res' = [op |-> "absorb_input", panic |-> FALSE,
               val |-> absorb_into_Input(arg.val, <<>>)]
    /\ UNCHANGED <<chipVars, pgacc, ro, arg>>

\* ro.absorb(&input.self_trace) on a fresh oracle
AbsorbSelfTrace ==
    /\ arg.kind = "input" /\ res.op = "none"
    /\ res' = [op |-> "absorb_self_trace", panic |-> FALSE,
               val |-> absorb_into_SelfTrace(arg.val.self_trace, <<>>)]
    /\ UNCHANGED <<chipVars, pgacc, ro, arg>>

\* ro.absorb(&input.support_trace) on a fresh oracle
AbsorbSupportTrace ==
    /\ arg.kind = "input" /\ res.op = "none"
    /\ res' = [op |-> "absorb_support_trace", panic |-> FALSE,
               val |-> absorb_into_SupportTrace(arg.val.support_trace, <<>>)]
    /\ UNCHANGED <<chipVars, pgacc, ro, arg>>

\* input.get_without_witness()
GetWithoutWitness ==
    /\ arg.kind = "input" /\ res.op = "none"
    /\ res' = [op |-> "get_without_witness", panic |-> FALSE,
               val |-> get_without_witness(arg.val)]
    /\ UNCHANGED <<chipVars, pgacc, ro, arg>>

\* Input::new_initial(&native, &support, &instance)
NewInitial ==
    /\ arg.kind = "setup" /\ res.op = "none"
    /\ \E r \in {Input_new_initial(arg.val.native, arg.val.support, arg.val.instance)} :
           res' = [op |-> "new_initial", panic |-> r.panic, val |-> r.val]
    /\ UNCHANGED <<chipVars, pgacc, ro, arg>>

\* builder.build()
Build ==
    /\ arg.kind = "builder" /\ res.op = "none"
    /\ \E r \in {build(arg.val.builder)} :
           res' = [op |-> "build", panic |-> r.panic, val |-> r.val]
    /\ UNCHANGED <<chipVars, pgacc, ro, arg>>

NextAssembly ==
    \/ AbsorbSangria
    \/ AbsorbInput
    \/ AbsorbSelfTrace
    \/ AbsorbSupportTrace
    \/ GetWithoutWitness
    \/ NewInitial
    \/ Build

SpecAssembly == InitAssembly /\ [][NextAssembly]_vars

(* ---------------------- reading the last call back --------------------- *)
\* Rows one permutation assigns.
RowsPerPerm == T * (1 + R_F + R_P)

\* The rows the last call wrote to: the chip's region, or the caller's own.
CallRows == IF call.op = "permutation" THEN call.rows ELSE region

\* Row steps of the last call (its first log entry is the initial state).
NumSteps == Len(call.log) - 1

\* The row its n-th row step assigned, n = 0, 1, ...
RowAt(n) == CallRows[call.log[n + 2] + 1]

\* Permutations the last call ran.
NumPerms == NumSteps \div RowsPerPerm

\* The T-wide blocks the pre-round rows of the last call added to the state,
\* one per permutation, read from the input column.
FedBlocks == Tab(LAMBDA p : Tab(LAMBDA i : RowAt((p - 1) * RowsPerPerm + i - 1).input, T), NumPerms)

\* The value the region holds at a location.
CellVal(rows, loc) ==
    IF loc[2] <= T THEN rows[loc[1] + 1].s[loc[2]]
    ELSE IF loc[2] = ColInput THEN rows[loc[1] + 1].input
    ELSE rows[loc[1] + 1].out

CeilDiv(a, b) == (a + b - 1) \div b

\* The block of an empty chunk: [0, 1, 0, ...].
EmptyBlock == Tab(LAMBDA i : IF i = 2 THEN 1 ELSE 0, T)

(* -------------------------------- C1 ----------------------------------- *)
\* C1 as stated: after the per-chunk permutations squeeze runs exactly one
\* more permutation, fed the empty chunk, iff the buffered length is a
\* non-zero multiple of RATE; an empty buffer gets none.
C1_Original ==
    call.op = "squeeze" =>
        /\ NumSteps = NumPerms * RowsPerPerm
        /\ NumPerms = CeilDiv(Len(buf), RATE)
                      + (IF Len(buf) % RATE = 0 /\ Len(buf) > 0 THEN 1 ELSE 0)

\* C1 amended: squeeze runs exactly one more permutation, fed the empty
\* chunk, iff the buffered length is a multiple of RATE, zero included: an
\* empty buffer gets exactly that one permutation, and a length that is not
\* a multiple of RATE gets none.
C1_TrailingPermutation ==
    call.op = "squeeze" =>
        /\ NumSteps = NumPerms * RowsPerPerm
        /\ NumPerms = CeilDiv(Len(buf), RATE) + (IF Len(buf) % RATE = 0 THEN 1 ELSE 0)
        /\ Len(buf) % RATE = 0 => FedBlocks[NumPerms] = EmptyBlock
        /\ Len(buf) = 0 => NumPerms = 1

\* An empty buffer was squeezed and one permutation ran.
C1_Witness == call.op = "squeeze" /\ Len(buf) = 0 /\ NumPerms = 1

(* -------------------------------- C2 ----------------------------------- *)
\* C2: squeeze returns slot 1 of the state reached from the fixed initial
\* state by one permutation per consecutive RATE-sized chunk of the buffer,
\* each fed the previous one's full output (and the trailing permutation);
\* it is a function of the buffer (and the parameter tables) alone, whatever
\* was squeezed before and wherever the cursor stood.
C2_SqueezeValue ==
    call.op = "squeeze" =>
        /\ ~call.panic
        /\ call.out.val = NativeSqueeze(spec, buf)[2]
        /\ call.out.col = ColOut
        /\ CellVal(region, Loc(call.out)) = call.out.val

\* A second squeeze, of more than one chunk, the caller's cursor off the
\* chip's.
C2_Witness ==
    /\ call.op = "squeeze" /\ nsq = 2 /\ Len(buf) > RATE
    /\ call.ctx_offset # call.start

(* -------------------------------- C3 ----------------------------------- *)
\* The blocks squeeze feeds for buffer b: each chunk padded, then the empty
\* block when the length is a multiple of RATE.
BlocksOf(b) ==
    Tab(LAMBDA k : PadInputs(chunks(b, RATE)[k]), Len(chunks(b, RATE)))
    \o (IF Exact(b) THEN <<PadInputs(<<>>)>> ELSE <<>>)

\* C3: the blocks fed for the squeezed buffer are those of BlocksOf, and no
\* other input sequence (one element longer at most) has the same blocks.
C3_DomainSeparation ==
    call.op = "squeeze" =>
        /\ FedBlocks = BlocksOf(buf)
        /\ \A b2 \in SeqsUpTo(Elems, MaxBuf + 1) : b2 # buf => BlocksOf(b2) # FedBlocks

\* A buffer of exactly RATE elements was squeezed (the same buffer with a
\* zero appended is among those compared).
C3_Witness == call.op = "squeeze" /\ Len(buf) = RATE /\ NumPerms = 2

(* -------------------------------- C4 ----------------------------------- *)
\* C4: the T cells permutation returns hold the state the permutation by
\* direct arithmetic gives for the same state, chunk and tables.
C4_PermutationEquivalence ==
    call.op = "permutation" /\ Len(call.inputs) <= RATE =>
        /\ ~call.panic
        /\ Len(call.state) = T
        /\ Tab(LAMBDA i : call.state[i].val, T)
               = NativePermutation(spec, call.init, call.inputs)
        /\ \A i \in 1 .. T :
               CellVal(call.rows, Loc(call.state[i])) = call.state[i].val

\* A permutation of a full chunk from a non-zero state.
C4_Witness ==
    /\ call.op = "permutation" /\ ~call.panic /\ Len(call.inputs) = RATE
    /\ call.init = Tab(LAMBDA i : 1, T)

(* -------------------------------- C5 ----------------------------------- *)
\* The gate of configure on one row:
\* sum_i(q_1[i]*s[i]) + sum_i(q_5[i]*s[i]^5) + rc + q_i*input + q_o*out = 0.
Gate(row) ==
    Add(Add(Add(Mul(row.qi, row.input), row.rc), Mul(row.qo, row.out)),
        Sum(Tab(LAMBDA i : Add(Mul(row.q1[i], row.s[i]), Mul(row.q5[i], pow_5(row.s[i]))), T), T)) = 0

GateHolds(rows) == \A k \in 1 .. Len(rows) : Gate(rows[k])

\* Every copy constraint recorded in the region joins equal values.
CopiesHold(rows) ==
    \A k \in 1 .. Len(rows) : \A e \in rows[k].eq : CellVal(rows, e[1]) = CellVal(rows, e[2])

\* Constraint checking of the test circuit: the gate on every row, the copy
\* constraints, and the returned cell constrained to instance row 0.
MockVerify(rows, out, instance) ==
    GateHolds(rows) /\ CopiesHold(rows) /\ CellVal(rows, Loc(out)) = instance

\* C5: after updates and a squeeze every assigned row satisfies the gate and
\* every copy constraint joins equal values, so constraint checking accepts
\* exactly the public instance that equals the returned cell's value.
C5_ConstraintsSatisfied ==
    call.op = "squeeze" =>
        /\ GateHolds(region)
        /\ CopiesHold(region)
        /\ \A instance \in Fp :
               MockVerify(region, call.out, instance) <=> instance = call.out.val

\* A fresh chip was updated and squeezed once, over three permutations.
C5_Witness ==
    /\ call.op = "squeeze" /\ nsq = 1 /\ Len(buf) = MaxBuf /\ NumPerms >= 2
    /\ Len(region) = NumSteps /\ \E k \in 1 .. Len(region) : region[k].eq # {}

(* -------------------------------- C6 ----------------------------------- *)
\* C6: the buffer is always the concatenation, in call order, of every list
\* passed to update; update only appends and leaves the stored offset and
\* the region alone, two updates leave what one update of the concatenation
\* leaves, and squeeze leaves the buffer as it was.
C6_BufferIsConcatenation ==
    /\ [](/\ buf = absorbed
          /\ \A a, b \in SeqsUpTo(Elems, MaxUpd) :
                 update(update(buf, a), b) = update(buf, a \o b))
    /\ [][/\ call'.op = "update" =>
                 /\ buf' = buf \o call'.inputs
                 /\ offset' = offset
                 /\ region' = region
          /\ nsq' = nsq + 1 => buf' = buf]_vars

\* A second squeeze hashed a buffer that two updates built, the last one
\* after the first squeeze.
C6_Witness ==
    /\ call.op = "squeeze" /\ nsq = 2 /\ Len(absorbed) = MaxBuf
    /\ FedBlocks = BlocksOf(absorbed)

SlotInput(chunk, i) ==
    IF i = 0 THEN 0
    ELSE IF i <= Len(chunk) THEN chunk[i]
    ELSE IF i = Len(chunk) + 1 THEN 1
    ELSE 0

\* C8: the pre-round row of slot i outputs state[i] + p[i] + c0[i] for a
\* chunk of at most RATE elements, p being [0, chunk, 1, 0, ...]; a longer
\* chunk fails the assertion before any row is assigned.
C8_PreRound ==
    call.op = "permutation" =>
        IF Len(call.inputs) > RATE
        THEN call.panic /\ NumSteps = 0 /\ call.state = <<>>
        ELSE /\ ~call.panic
             /\ \A i \in 0 .. T - 1 :
                    /\ RowAt(i).kind = "pre_round"
                    /\ RowAt(i).input = SlotInput(call.inputs, i)
                    /\ RowAt(i).out = (call.init[i + 1] + SlotInput(call.inputs, i)
                                       + ConstStart(spec)[1][i + 1]) % P
                    /\ call.log[i + 2] = call.start + i

\* A one-element chunk: the 1 lands in slot 2.
C8_Witness ==
    /\ call.op = "permutation" /\ ~call.panic
    /\ Len(call.inputs) = 1 /\ RowAt(2).input = 1

(* -------------------------------- C9 ----------------------------------- *)
\* The round the n-th row step of a permutation belongs to, from 0: the
\* pre-round, then the rounds in order.
RoundOf(n) == n \div T

\* The kind, half and round index a round has by its position.
RoundTag(k) ==
    IF k = 0 THEN <<"pre_round", FALSE, 0>>
    ELSE IF k <= r_f_half THEN <<"full_round", TRUE, k - 1>>
    ELSE IF k <= r_f_half + R_P THEN <<"partial_round", FALSE, k - 1 - r_f_half>>
    ELSE <<"full_round", FALSE, k - 1 - r_f_half - R_P>>

\* The constants and the matrix a full round has by its position: start
\* constants r+1 in the first half, the end constants in the second (none
\* left for its last round); the pre-sparse matrix in the last round of
\* the first half only.
RoundConsts(k) ==
    IF k <= r_f_half THEN ConstStart(spec)[k + 1]
    ELSE IF k < 2 * r_f_half + R_P THEN ConstEnd(spec)[k - r_f_half - R_P]
    ELSE Zeros

RoundMatrix(k) == IF k = r_f_half THEN PreSparseMds(spec) ELSE Mds(spec)

\* C9: permutation writes T pre-round rows, the first-half full rounds, the
\* partial rounds and the second-half full rounds, in this order on
\* consecutive rows and nothing else; each round reads the whole output of
\* the round before; the pre-sparse matrix mixes the last first-half round
\* only; first-half round r adds start constants r+1 and the second half
\* the end constants.
C9_RoundOrder ==
    call.op = "permutation" /\ ~call.panic =>
        /\ NumSteps = T * (1 + r_f_half + R_P + r_f_half)
        /\ \A n \in 0 .. NumSteps - 1 :
               /\ call.log[n + 2] = call.start + n
               /\ <<RowAt(n).kind, RowAt(n).first, RowAt(n).round>> = RoundTag(RoundOf(n))
               /\ RowAt(n).idx = n % T
               /\ RoundOf(n) >= 1 =>
                      /\ RowAt(n).s = Tab(LAMBDA i : RowAt(T * (RoundOf(n) - 1) + i - 1).out, T)
                      /\ RowAt(n).eq = {<<<<call.start + T * (RoundOf(n) - 1) + i - 1, ColOut>>,
                                          <<call.start + n, i>>>> : i \in 1 .. T}
               /\ RowAt(n).kind = "full_round" =>
                      /\ RowAt(n).q5 = RoundMatrix(RoundOf(n))[(n % T) + 1]
                      /\ RowAt(n).rc = Sum(Tab(LAMBDA j : Mul(RoundMatrix(RoundOf(n))[(n % T) + 1][j],
                                                              RoundConsts(RoundOf(n))[j]), T), T)
        /\ call.state = Tab(LAMBDA i : Cell(call.start + NumSteps - T + i - 1, ColOut,
                                            RowAt(NumSteps - T + i - 1).out), T)

\* A whole permutation was written below a caller's offset.
C9_Witness ==
    /\ call.op = "permutation" /\ ~call.panic /\ call.start > 0
    /\ RowAt(NumSteps - 1).kind = "full_round" /\ ~RowAt(NumSteps - 1).first
    /\ PreSparseMds(spec) # Mds(spec)

(* -------------------------------- C10 ---------------------------------- *)
\* Where the columns before column c end in the flattened public inputs.
RECURSIVE ColBase(_, _)
ColBase(cols, c) == IF c = 1 THEN 0 ELSE ColBase(cols, c - 1) + Len(cols[c - 1])

\* Lengths of the four leading segments of the accumulator's stream.
PointsLen == 2 * LimbsCount * Len(pgacc.ins.W_commitments)

InstancesLen == ColBase(pgacc.ins.instances, Len(pgacc.ins.instances) + 1)

\* C10: the stream absorbed for a ProtoGalaxyAccumulatorInstance is every
\* commitment point in point order (x limbs then y limbs), then the public
\* input columns one after another, each in index order, then the
\* challenges, then the betas, then e as the last element, and nothing
\* else, whatever the values are.
C10_AccumulatorStream ==
    ro # <<>> =>
        /\ Len(ro) = PointsLen + InstancesLen + Len(pgacc.ins.challenges) + Len(pgacc.betas) + 1
        /\ \A i \in 1 .. Len(pgacc.ins.W_commitments), j \in 1 .. LimbsCount :
               /\ ro[2 * LimbsCount * (i - 1) + j] = pgacc.ins.W_commitments[i].x[j]
               /\ ro[2 * LimbsCount * (i - 1) + LimbsCount + j] = pgacc.ins.W_commitments[i].y[j]
        /\ \A c \in 1 .. Len(pgacc.ins.instances) : \A k \in 1 .. Len(pgacc.ins.instances[c]) :
               ro[PointsLen + ColBase(pgacc.ins.instances, c) + k] = pgacc.ins.instances[c][k]
        /\ \A k \in 1 .. Len(pgacc.ins.challenges) :
               ro[PointsLen + InstancesLen + k] = pgacc.ins.challenges[k]
        /\ \A k \in 1 .. Len(pgacc.betas) :
               ro[PointsLen + InstancesLen + Len(pgacc.ins.challenges) + k] = pgacc.betas[k]
        /\ ro[Len(ro)] = pgacc.e

\* An accumulator with two points, two columns of different lengths,
\* challenges and betas, every scalar its own value, was absorbed.
C10_Witness ==
    /\ ro # <<>> /\ pgacc.e = 600
    /\ Len(pgacc.ins.W_commitments) = 2 /\ Len(pgacc.ins.challenges) = 2
    /\ Len(pgacc.betas) = 2 /\ Len(pgacc.ins.instances) = 2
    /\ Len(pgacc.ins.instances[1]) = 2 /\ Len(pgacc.ins.instances[2]) = 1

(* -------------------------------- C11 ---------------------------------- *)
\* The support accumulator of the Input at hand.
SupAcc == arg.val.support_trace.input_accumulator

\* Lengths of the leading segments of a support instance's stream.
SupPointsLen(ins) == 2 * Len(ins.W_commitments)

SupInstancesLen(ins) == ColBase(ins.instances, Len(ins.instances) + 1)

SupInsLen(ins) == SupPointsLen(ins) + SupInstancesLen(ins) + Len(ins.challenges)

\* The stream st holds, from position at + 1 on, the stream of the support
\* instance ins: x then y of each point, the columns, the challenges.
HoldsSupportIns(st, at, ins) ==
    /\ \A i \in 1 .. Len(ins.W_commitments) :
           /\ st[at + 2 * (i - 1) + 1] = ins.W_commitments[i][1]
           /\ st[at + 2 * (i - 1) + 2] = ins.W_commitments[i][2]
    /\ \A c \in 1 .. Len(ins.instances) : \A k \in 1 .. Len(ins.instances[c]) :
           st[at + SupPointsLen(ins) + ColBase(ins.instances, c) + k] = ins.instances[c][k]
    /\ \A k \in 1 .. Len(ins.challenges) :
           st[at + SupPointsLen(ins) + SupInstancesLen(ins) + k] = ins.challenges[k]

\* The stream st holds, from position at + 1 on, the stream of the support
\* accumulator acc: its instance, u, the error commitment's x and y, zero.
HoldsSangria(st, at, acc) ==
    /\ HoldsSupportIns(st, at, acc.ins)
    /\ st[at + SupInsLen(acc.ins) + 1] = acc.u
    /\ st[at + SupInsLen(acc.ins) + 2] = acc.E_commitment[1]
    /\ st[at + SupInsLen(acc.ins) + 3] = acc.E_commitment[2]
    /\ st[at + SupInsLen(acc.ins) + 4] = 0

\* C11: the stream absorbed for a SangriaAccumulatorInstance is x then y of
\* each commitment point in order, the public input columns flattened in
\* column order, the challenges, u, the error commitment's x and y, and
\* one zero; its length is 2*|W_commitments| + sum of column lengths +
\* |challenges| + 4 whatever the values are.
C11_SangriaStream ==
    res.op = "absorb_sangria" =>
        /\ ~res.panic
        /\ Len(res.val) = 2 * Len(SupAcc.ins.W_commitments) + SupInstancesLen(SupAcc.ins)
                          + Len(SupAcc.ins.challenges) + 4
        /\ HoldsSangria(res.val, 0, SupAcc)

\* A support accumulator with two points, two columns and challenges, every
\* scalar its own value and none zero, was absorbed.
C11_Witness ==
    /\ res.op = "absorb_sangria"
    /\ Len(SupAcc.ins.W_commitments) = 2 /\ Len(SupAcc.ins.instances) = 2
    /\ Len(SupAcc.ins.challenges) = 2 /\ SupAcc.u = 2500
    /\ res.val[Len(res.val) - 1] = 2601

(* -------------------------------- C12 ---------------------------------- *)
\* The stream st holds the sequence xs from position at + 1 on.
HoldsSeq(st, at, xs) == \A k \in 1 .. Len(xs) : st[at + k] = xs[k]

\* Length of the stream of a native instance, and of a native accumulator.
NativeInsLen(ins) ==
    2 * LimbsCount * Len(ins.W_commitments)
    + ColBase(ins.instances, Len(ins.instances) + 1) + Len(ins.challenges)

AccLen(acc) == NativeInsLen(acc.ins) + Len(acc.betas) + 1

\* The stream st holds, from position at + 1 on, the stream of the native
\* instance ins: the limbs of each point, the columns, the challenges.
HoldsNativeIns(st, at, ins) ==
    /\ \A i \in 1 .. Len(ins.W_commitments) :
           /\ HoldsSeq(st, at + 2 * LimbsCount * (i - 1), ins.W_commitments[i].x)
           /\ HoldsSeq(st, at + 2 * LimbsCount * (i - 1) + LimbsCount, ins.W_commitments[i].y)
    /\ \A c \in 1 .. Len(ins.instances) :
           HoldsSeq(st, at + 2 * LimbsCount * Len(ins.W_commitments) + ColBase(ins.instances, c),
                    ins.instances[c])
    /\ HoldsSeq(st, at + NativeInsLen(ins) - Len(ins.challenges), ins.challenges)

\* The same for a native accumulator: its instance, the betas, e.
HoldsAcc(st, at, acc) ==
    /\ HoldsNativeIns(st, at, acc.ins)
    /\ HoldsSeq(st, at + NativeInsLen(acc.ins), acc.betas)
    /\ st[at + AccLen(acc)] = acc.e

\* The native accumulator of the Input at hand.
SelfAcc == arg.val.self_trace.input_accumulator

\* C12: the stream absorbed for an Input is the native accumulator's
\* stream, the support accumulator's stream, the x and the y of pp_digest,
\* the step counter as a field element, z_0 and then z_i, and nothing else;
\* every position is a function of the Input, so two absorptions of the
\* same Input give the same stream.
C12_InputStream ==
    res.op = "absorb_input" =>
        /\ ~res.panic
        /\ Len(res.val) = AccLen(SelfAcc) + SupInsLen(SupAcc.ins) + 4 + 3 + 2 * Arity
        /\ HoldsAcc(res.val, 0, SelfAcc)
        /\ HoldsSangria(res.val, AccLen(SelfAcc), SupAcc)
        /\ \E at \in {AccLen(SelfAcc) + SupInsLen(SupAcc.ins) + 4} :
               /\ res.val[at + 1] = arg.val.pp_digest[1]
               /\ res.val[at + 2] = arg.val.pp_digest[2]
               /\ res.val[at + 3] = arg.val.step % Q
               /\ HoldsSeq(res.val, at + 3, arg.val.z_0)
               /\ HoldsSeq(res.val, at + 3 + Arity, arg.val.z_i)
        /\ res.val = absorb_into_Input(arg.val, <<>>)

\* An Input with both accumulators non-empty, every scalar its own value,
\* at a step after the first, was absorbed.
C12_Witness ==
    /\ res.op = "absorb_input"
    /\ arg.val.step = 2 /\ arg.val.pp_digest = <<8001, 8002>>
    /\ Len(SelfAcc.ins.W_commitments) = 1 /\ Len(SelfAcc.betas) = 2
    /\ Len(SupAcc.ins.W_commitments) = 2 /\ Len(SupAcc.ins.instances) = 1
    /\ res.val[Len(res.val)] = 8200 + Arity

(* -------------------------------- C13 ---------------------------------- *)
\* Length of the stream of one incoming entry of the support trace.
IncomingLen(e) == SupInsLen(e.instance) + 2 * Len(e.proof)

\* Where the entries before entry n end in the stream of the entries.
RECURSIVE IncBase(_, _)
IncBase(incoming, n) ==
    IF n = 1 THEN 0 ELSE IncBase(incoming, n - 1) + IncomingLen(incoming[n - 1])

\* The stream st holds, from position at + 1 on, the stream of the entry e:
\* its instance, then x and y of each cross-term commitment.
HoldsIncoming(st, at, e) ==
    /\ HoldsSupportIns(st, at, e.instance)
    /\ \A k \in 1 .. Len(e.proof) :
           /\ st[at + SupInsLen(e.instance) + 2 * (k - 1) + 1] = e.proof[k][1]
           /\ st[at + SupInsLen(e.instance) + 2 * (k - 1) + 2] = e.proof[k][2]

\* The two traces of the Input at hand.
SelfTr == arg.val.self_trace

SupTr == arg.val.support_trace

\* C13: the stream absorbed for a SelfTrace is the input accumulator's
\* stream, the single incoming instance's stream, poly_K and then poly_F;
\* the stream absorbed for a SupportTrace is the input accumulator's stream
\* and then, for each incoming entry in order, its instance's stream
\* followed by x and y of each of its cross-term commitments.
C13_TraceStreams ==
    /\ res.op = "absorb_self_trace" =>
           /\ Len(res.val) = AccLen(SelfTr.input_accumulator) + NativeInsLen(SelfTr.incoming)
                             + Len(SelfTr.proof.poly_K) + Len(SelfTr.proof.poly_F)
           /\ HoldsAcc(res.val, 0, SelfTr.input_accumulator)
           /\ HoldsNativeIns(res.val, AccLen(SelfTr.input_accumulator), SelfTr.incoming)
           /\ HoldsSeq(res.val,
                       AccLen(SelfTr.input_accumulator) + NativeInsLen(SelfTr.incoming),
                       SelfTr.proof.poly_K)
           /\ HoldsSeq(res.val,
                       AccLen(SelfTr.input_accumulator) + NativeInsLen(SelfTr.incoming)
                       + Len(SelfTr.proof.poly_K),
                       SelfTr.proof.poly_F)
    /\ res.op = "absorb_support_trace" =>
           /\ Len(res.val) = SupInsLen(SupTr.input_accumulator.ins) + 4
                             + IncBase(SupTr.incoming, Len(SupTr.incoming) + 1)
           /\ HoldsSangria(res.val, 0, SupTr.input_accumulator)
           /\ \A n \in 1 .. Len(SupTr.incoming) :
                  HoldsIncoming(res.val,
                                SupInsLen(SupTr.input_accumulator.ins) + 4
                                + IncBase(SupTr.incoming, n),
                                SupTr.incoming[n])

\* A support trace with two incoming entries, the second with cross-term
\* commitments, every scalar its own value, was absorbed.
C13_Witness ==
    /\ res.op = "absorb_support_trace"
    /\ Len(SupTr.incoming) = 2 /\ Len(SupTr.incoming[2].proof) = 1
    /\ Len(SupTr.incoming[1].instance.W_commitments) = 1
    /\ res.val[Len(res.val)] = 5601

\* A self trace with a non-empty accumulator and incoming instance, every
\* scalar its own value, was absorbed.
C13_WitnessSelf ==
    /\ res.op = "absorb_self_trace"
    /\ Len(SelfTr.incoming.W_commitments) = 2 /\ Len(SelfTr.input_accumulator.betas) = 1
    /\ res.val[Len(res.val)] = 1500 + Len(SelfTr.proof.poly_F)

(* -------------------------------- C14 ---------------------------------- *)
\* Every element of xs is zero.
AllZero(xs) == \A k \in 1 .. Len(xs) : xs[k] = 0

\* z has as many columns as cols, each of the same length and all zero.
ZeroColsOf(z, cols) ==
    /\ Len(z) = Len(cols)
    /\ \A c \in 1 .. Len(cols) : Len(z[c]) = Len(cols[c]) /\ AllZero(z[c])

\* z is the native instance ins with every point the identity and every
\* scalar zero.
ZeroNativeOf(z, ins) ==
    /\ Len(z.W_commitments) = Len(ins.W_commitments)
    /\ \A i \in 1 .. Len(z.W_commitments) :
           /\ Len(z.W_commitments[i].x) = LimbsCount /\ AllZero(z.W_commitments[i].x)
           /\ Len(z.W_commitments[i].y) = LimbsCount /\ AllZero(z.W_commitments[i].y)
    /\ ZeroColsOf(z.instances, ins.instances)
    /\ Len(z.challenges) = Len(ins.challenges) /\ AllZero(z.challenges)

\* z is as many points as pairs, each (0, 0).
ZeroPairsOf(z, pairs) ==
    Len(z) = Len(pairs) /\ \A k \in 1 .. Len(z) : z[k] = <<0, 0>>

\* z is the support instance ins with every point (0, 0) and every scalar
\* zero.
ZeroSupportOf(z, ins) ==
    /\ ZeroPairsOf(z.W_commitments, ins.W_commitments)
    /\ ZeroColsOf(z.instances, ins.instances)
    /\ Len(z.challenges) = Len(ins.challenges) /\ AllZero(z.challenges)

\* z is the Input x with every length kept and every value zeroed.
ZeroInputOf(z, x) ==
    /\ z.pp_digest = <<0, 0>> /\ z.step = 0
    /\ Len(z.z_0) = Len(x.z_0) /\ AllZero(z.z_0)
    /\ Len(z.z_i) = Len(x.z_i) /\ AllZero(z.z_i)
    /\ ZeroNativeOf(z.self_trace.input_accumulator.ins, x.self_trace.input_accumulator.ins)
    /\ Len(z.self_trace.input_accumulator.betas) = Len(x.self_trace.input_accumulator.betas)
    /\ AllZero(z.self_trace.input_accumulator.betas)
    /\ z.self_trace.input_accumulator.e = 0
    /\ ZeroNativeOf(z.self_trace.incoming, x.self_trace.incoming)
    /\ Len(z.self_trace.proof.poly_F) = Len(x.self_trace.proof.poly_F)
    /\ AllZero(z.self_trace.proof.poly_F)
    /\ Len(z.self_trace.proof.poly_K) = Len(x.self_trace.proof.poly_K)
    /\ AllZero(z.self_trace.proof.poly_K)
    /\ ZeroSupportOf(z.support_trace.input_accumulator.ins,
                     x.support_trace.input_accumulator.ins)
    /\ z.support_trace.input_accumulator.E_commitment = <<0, 0>>
    /\ z.support_trace.input_accumulator.u = 0
    /\ Len(z.support_trace.incoming) = Len(x.support_trace.incoming)
    /\ \A n \in 1 .. Len(z.support_trace.incoming) :
           /\ ZeroSupportOf(z.support_trace.incoming[n].instance,
                            x.support_trace.incoming[n].instance)
           /\ ZeroPairsOf(z.support_trace.incoming[n].proof, x.support_trace.incoming[n].proof)

\* C14: get_without_witness(x) has at every level of nesting the lengths
\* of x (commitments, columns and their lengths, challenges, betas, poly_F,
\* poly_K, incoming entries and each entry's commitments, columns,
\* challenges and proof), every scalar zero, every native commitment the
\* identity, every support point (0, 0), pp_digest (0, 0) and step 0; and
\* the call leaves x as it was.
C14_WithoutWitness ==
    /\ [](res.op = "get_without_witness" => ~res.panic /\ ZeroInputOf(res.val, arg.val))
    /\ [][res'.op = "get_without_witness" => arg' = arg]_vars

\* get_without_witness was applied to an Input with non-zero scalars at a
\* step after the first, with columns of different lengths and two
\* incoming entries.
C14_Witness ==
    /\ res.op = "get_without_witness"
    /\ arg.val.step = 1 /\ arg.val.pp_digest = <<8001, 8002>>
    /\ Len(arg.val.support_trace.incoming) = 2
    /\ Len(arg.val.self_trace.input_accumulator.ins.instances) = 2
    /\ Len(arg.val.self_trace.input_accumulator.ins.instances[2]) = 1
    /\ Len(res.val.self_trace.proof.poly_K) = 4

(* -------------------------------- C15 ---------------------------------- *)
\* C15: new_initial fixes the number of native commitment points, in the
\* accumulator and in the incoming instance, and with it the number of
\* incoming support entries, from the native challenge count: 0 or 1
\* challenges give 1, 2 give 2, 3 give 3; with any other challenge count
\* the construction aborts and no Input is returned.
C15_CommitmentCount ==
    res.op = "new_initial" =>
        /\ arg.val.native.num_challenges \notin 0 .. 3 => res.panic /\ res.val = <<>>
        /\ ~res.panic =>
               \E n \in {IF arg.val.native.num_challenges <= 1 THEN 1
                         ELSE arg.val.native.num_challenges} :
                   /\ Len(res.val.self_trace.input_accumulator.ins.W_commitments) = n
                   /\ Len(res.val.self_trace.incoming.W_commitments) = n
                   /\ Len(res.val.support_trace.incoming) = n

\* new_initial returned an Input for a native shape without challenges,
\* and one for a native shape with three.
C15_Witness ==
    /\ res.op = "new_initial" /\ ~res.panic
    /\ arg.val.native.num_challenges = 0
    /\ Len(res.val.support_trace.incoming) = 1

C15_WitnessThree ==
    /\ res.op = "new_initial" /\ ~res.panic
    /\ arg.val.native.num_challenges = 3

\* new_initial was called with four native challenges.
C15_WitnessAbort ==
    res.op = "new_initial" /\ arg.val.native.num_challenges = 4 /\ res.panic

(* -------------------------------- C16 ---------------------------------- *)
\* Every column of cols is all zero.
ZeroColumns(cols) == \A c \in 1 .. Len(cols) : AllZero(cols[c])

\* Every point of a native instance is the identity and every scalar zero.
IsZeroNative(ins) ==
    /\ \A i \in 1 .. Len(ins.W_commitments) : ins.W_commitments[i] = BigUintPoint_identity
    /\ ZeroColumns(ins.instances)
    /\ AllZero(ins.challenges)

\* Every point of a support instance is the identity, held as (0, 0), and
\* every scalar zero.
IsZeroSupport(ins) ==
    /\ \A i \in 1 .. Len(ins.W_commitments) : ins.W_commitments[i] = <<0, 0>>
    /\ ZeroColumns(ins.instances)
    /\ AllZero(ins.challenges)

\* C16: the Input returned by new_initial has all commitments at the group
\* identity on both tracks, all public inputs and all challenges zero,
\* betas and error terms zero, step 0 and z_0 and z_i all zero, whatever
\* the circuit shapes and the supplied support instance are.
C16_InitialIsZero ==
    res.op = "new_initial" /\ ~res.panic =>
        /\ IsZeroNative(res.val.self_trace.input_accumulator.ins)
        /\ AllZero(res.val.self_trace.input_accumulator.betas)
        /\ res.val.self_trace.input_accumulator.e = 0
        /\ IsZeroNative(res.val.self_trace.incoming)
        /\ AllZero(res.val.self_trace.proof.poly_F)
        /\ AllZero(res.val.self_trace.proof.poly_K)
        /\ IsZeroSupport(res.val.support_trace.input_accumulator.ins)
        /\ res.val.support_trace.input_accumulator.E_commitment = <<0, 0>>
        /\ res.val.support_trace.input_accumulator.u = 0
        /\ \A n \in 1 .. Len(res.val.support_trace.incoming) :
               /\ IsZeroSupport(res.val.support_trace.incoming[n].instance)
               /\ \A k \in 1 .. Len(res.val.support_trace.incoming[n].proof) :
                      res.val.support_trace.incoming[n].proof[k] = <<0, 0>>
        /\ res.val.pp_digest = <<0, 0>> /\ res.val.step = 0
        /\ AllZero(res.val.z_0) /\ AllZero(res.val.z_i)

\* The part of it the code keeps: the native track, the error terms of
\* the support accumulator, the cross-term commitments, the digest, the
\* step and the state vectors.
C16_NativeTrackIsZero ==
    res.op = "new_initial" /\ ~res.panic =>
        /\ IsZeroNative(res.val.self_trace.input_accumulator.ins)
        /\ AllZero(res.val.self_trace.input_accumulator.betas)
        /\ res.val.self_trace.input_accumulator.e = 0
        /\ IsZeroNative(res.val.self_trace.incoming)
        /\ AllZero(res.val.self_trace.proof.poly_F)
        /\ AllZero(res.val.self_trace.proof.poly_K)
        /\ res.val.support_trace.input_accumulator.E_commitment = <<0, 0>>
        /\ res.val.support_trace.input_accumulator.u = 0
        /\ \A n \in 1 .. Len(res.val.support_trace.incoming) :
               \A k \in 1 .. Len(res.val.support_trace.incoming[n].proof) :
                   res.val.support_trace.incoming[n].proof[k] = <<0, 0>>
        /\ res.val.pp_digest = <<0, 0>> /\ res.val.step = 0
        /\ AllZero(res.val.z_0) /\ AllZero(res.val.z_i)

\* new_initial returned an Input whose support accumulator holds the
\* coordinates, a public input and a challenge of the supplied instance.
C16_SupportTrackCopied ==
    /\ res.op = "new_initial" /\ ~res.panic
    /\ Len(res.val.support_trace.input_accumulator.ins.W_commitments) >= 1
    /\ res.val.support_trace.input_accumulator.ins.W_commitments[1] = <<3110, 3210>>
    /\ res.val.support_trace.input_accumulator.ins.instances[1][1] = 3311
    /\ Len(res.val.support_trace.input_accumulator.ins.challenges) >= 1
    /\ res.val.support_trace.input_accumulator.ins.challenges[1] = 3401

(* -------------------------------- C17 ---------------------------------- *)
\* The lengths of a support instance, and of every vector of an Input.
SupportLengths(ins) ==
    [W_commitments |-> Len(ins.W_commitments),
     instances |-> Tab(LAMBDA c : Len(ins.instances[c]), Len(ins.instances)),
     challenges |-> Len(ins.challenges)]

NativeLengths(ins) ==
    [W_commitments |-> Len(ins.W_commitments),
     limbs |-> Tab(LAMBDA i : <<Len(ins.W_commitments[i].x), Len(ins.W_commitments[i].y)>>,
                   Len(ins.W_commitments)),
     instances |-> Tab(LAMBDA c : Len(ins.instances[c]), Len(ins.instances)),
     challenges |-> Len(ins.challenges)]

Lengths(x) ==
    [self_acc |-> NativeLengths(x.self_trace.input_accumulator.ins),
     betas |-> Len(x.self_trace.input_accumulator.betas),
     self_incoming |-> NativeLengths(x.self_trace.incoming),
     poly_F |-> Len(x.self_trace.proof.poly_F),
     poly_K |-> Len(x.self_trace.proof.poly_K),
     support_acc |-> SupportLengths(x.support_trace.input_accumulator.ins),
     support_incoming |->
         Tab(LAMBDA n : [instance |-> SupportLengths(x.support_trace.incoming[n].instance),
                         proof |-> Len(x.support_trace.incoming[n].proof)],
             Len(x.support_trace.incoming)),
     z_0 |-> Len(x.z_0),
     z_i |-> Len(x.z_i)]

\* The lengths the objects of the folding schemes have for the native
\* shape N and the support shape S.
PlonkConforms(ins, nW, S) ==
    /\ Len(ins.W_commitments) = nW
    /\ Len(ins.instances) = Len(S.num_io)
    /\ \A c \in 1 .. Len(S.num_io) : Len(ins.instances[c]) = S.num_io[c]
    /\ Len(ins.challenges) = S.num_challenges

Conforms(b, N, S) ==
    /\ N.num_challenges \in 0 .. 3
    /\ S.num_io = <<INSTANCES_LEN>>
    /\ PlonkConforms(b.self_acc.ins, RoundsOf(N), N)
    /\ Len(b.self_acc.betas) = N.betas_count
    /\ PlonkConforms(b.self_incoming, RoundsOf(N), N)
    /\ Len(b.self_proof.poly_F) = N.fft_points_count_F
    /\ Len(b.self_proof.poly_K) = N.fft_points_count_K
    /\ Len(b.support_acc.W_commitments) = S.W_len
    /\ Len(b.support_acc.challenges) = S.num_challenges
    /\ Len(b.support_incoming) = RoundsOf(N)
    /\ \A n \in 1 .. Len(b.support_incoming) :
           /\ PlonkConforms(b.support_incoming[n].instance, S.W_len, S)
           /\ Len(b.support_incoming[n].proof) = CrossTermsOf(S)

SomeIdentity(points) == \E i \in 1 .. Len(points) : points[i].inf

\* One of the scalars has no image in F.
SomeTooBig(xs) == \E k \in 1 .. Len(xs) : xs[k] >= Q

\* A commitment point build needs the coordinates of is the identity: a
\* native commitment, a witness commitment of the support accumulator or of
\* an incoming support instance, the error commitment, a cross-term
\* commitment.
HasIdentity(b) ==
    \/ SomeIdentity(b.self_acc.ins.W_commitments)
    \/ SomeIdentity(b.self_incoming.W_commitments)
    \/ SomeIdentity(b.support_acc.W_commitments)
    \/ b.support_acc.E_commitment.inf
    \/ \E n \in 1 .. Len(b.support_incoming) :
           \/ SomeIdentity(b.support_incoming[n].instance.W_commitments)
           \/ SomeIdentity(b.support_incoming[n].proof)

\* A scalar of the support track has no image in F.
HasTooBig(b) ==
    \/ SomeTooBig(b.support_acc.consistency_markers)
    \/ SomeTooBig(b.support_acc.challenges)
    \/ b.support_acc.u >= Q
    \/ \E n \in 1 .. Len(b.support_incoming) :
           \/ SomeTooBig(b.support_incoming[n].instance.challenges)
           \/ \E c \in 1 .. Len(b.support_incoming[n].instance.instances) :
                  SomeTooBig(b.support_incoming[n].instance.instances[c])

\* C18 as stated: build fails only if a commitment point whose affine
\* coordinates are required is the group identity, then no Input is
\* returned, and when no such point is the identity build succeeds.
C18_Original ==
    res.op = "build" =>
        /\ res.panic <=> HasIdentity(arg.val.builder)
        /\ res.panic => res.val = <<>>

\* C18: build fails exactly when a commitment point whose affine
\* coordinates are required is the group identity, or a scalar of the
\* support track has no image in F, or the hash accumulator of the support
\* accumulator is not None; then no Input is returned, and otherwise build
\* returns the Input with the digest, step and state vectors it was given.
C18_FailureCauses ==
    res.op = "build" =>
        /\ res.panic <=>
               \/ HasIdentity(arg.val.builder)
               \/ HasTooBig(arg.val.builder)
               \/ arg.val.builder.support_acc.step_circuit_instances_hash_accumulator # "None"
        /\ res.panic => res.val = <<>>
        /\ ~res.panic =>
               /\ res.val.pp_digest = arg.val.builder.pp_digest
               /\ res.val.step = arg.val.builder.step
               /\ res.val.z_0 = arg.val.builder.z_0 /\ res.val.z_i = arg.val.builder.z_i
               /\ Len(res.val.support_trace.incoming) = Len(arg.val.builder.support_incoming)

\* build failed on a builder whose only identity point is the error
\* commitment of the support accumulator.
C18_Witness ==
    /\ res.op = "build" /\ res.panic
    /\ arg.val.builder.support_acc.E_commitment.inf
    /\ ~SomeIdentity(arg.val.builder.support_acc.W_commitments)
    /\ arg.val.builder.support_acc.step_circuit_instances_hash_accumulator = "None"
    /\ Len(arg.val.builder.support_incoming) = 2

\* build failed on a builder without any identity point: its hash
\* accumulator is not None.
C18_WitnessHashAcc ==
    /\ res.op = "build" /\ res.panic
    /\ ~HasIdentity(arg.val.builder) /\ ~HasTooBig(arg.val.builder)

(* -------------------------------- C19 ---------------------------------- *)
\* C19: build aborts whenever a vector length of a supplied instance,
\* accumulator, proof or trace is not the one of the circuit shapes fixed
\* at setup, a number of incoming support entries outside 1..3 or other
\* than the native commitment count included; it never returns an Input
\* whose lengths differ from the shapes.
C19_AbortsOnMismatch ==
    res.op = "build" =>
        /\ ~Conforms(arg.val.builder, arg.val.native, arg.val.support) => res.panic
        /\ ~res.panic =>
               /\ Len(res.val.support_trace.incoming) \in 1 .. 3
               /\ Len(res.val.support_trace.incoming)
                      = Len(res.val.self_trace.input_accumulator.ins.W_commitments)

\* build returned an Input with four incoming support entries beside
\* three native commitments.
C19_FourIncoming ==
    /\ res.op = "build" /\ ~res.panic
    /\ Len(res.val.support_trace.incoming) = 4
    /\ Len(res.val.self_trace.input_accumulator.ins.W_commitments) = 3

\* build returned an Input without any incoming support entry.
C19_NoIncoming ==
    /\ res.op = "build" /\ ~res.panic
    /\ Len(res.val.support_trace.incoming) = 0
    /\ Len(res.val.self_trace.input_accumulator.ins.W_commitments) = 1

\* What build does instead: every length of the Input is the length of the
\* object it was projected from.
C19_LengthsAsSupplied ==
    res.op = "build" /\ ~res.panic =>
        /\ Len(res.val.self_trace.input_accumulator.ins.W_commitments)
               = Len(arg.val.builder.self_acc.ins.W_commitments)
        /\ res.val.self_trace.input_accumulator.ins.instances
               = arg.val.builder.self_acc.ins.instances
        /\ res.val.self_trace.incoming.instances = arg.val.builder.self_incoming.instances
        /\ res.val.self_trace.proof = arg.val.builder.self_proof
        /\ Len(res.val.support_trace.incoming) = Len(arg.val.builder.support_incoming)
        /\ \A n \in 1 .. Len(res.val.support_trace.incoming) :
               Len(res.val.support_trace.incoming[n].proof)
                   = Len(arg.val.builder.support_incoming[n].proof)

(* -------------------------------- C20 ---------------------------------- *)
\* Permutations a squeeze of the buffer b runs: one per chunk, and one more
\* when the length of b is a multiple of RATE.
PermsOf(b) == (Len(b) \div RATE) + 1

\* C20: within a squeeze the cursor never goes back after the reset: the
\* initial state and the first pre-round row are written at the start row,
\* every pre_round, full_round and partial_round row after it is one row
\* further, so a squeeze of k permutations ends k * T * (1 + R_F + R_P) rows
\* after its start row; the chip's stored offset becomes that end row, the
\* start row of the next squeeze; no row an earlier squeeze wrote is
\* written again.
C20_RowCursor ==
    [][nsq' = nsq + 1 =>
           /\ ~call'.panic
           /\ call'.log[1] = offset /\ call'.log[2] = offset
           /\ \A n \in 2 .. Len(call'.log) - 1 : call'.log[n + 1] = call'.log[n] + 1
           /\ Len(call'.log) - 1 = PermsOf(buf) * T * (1 + R_F + R_P)
           /\ offset' = offset + PermsOf(buf) * T * (1 + R_F + R_P)
           /\ \A n \in 1 .. Len(call'.log) : call'.log[n] >= Len(region)
           /\ Len(region') = offset'
           /\ \A i \in 1 .. Len(region) : region'[i] = region[i]]_vars

\* A second squeeze of two permutations, after a first one that wrote rows.
C20_Witness ==
    /\ call.op = "squeeze" /\ nsq = 2 /\ ~call.panic
    /\ Len(buf) = RATE
    /\ call.log[1] = 2 * T * (1 + R_F + R_P)
    /\ offset = 4 * T * (1 + R_F + R_P)

(* -------------------------------- C21 ---------------------------------- *)
\* For the n-th row step of the last call, a partial-round row: the S-box
\* output of slot 0 with the round's constant added, v = s[0]^5 + rc.
PartialV(n) == Add(pow_5(RowAt(n).s[1]), ConstPartial(spec)[RowAt(n).round + 1])

\* The output the row has by its slot: row[0]*v + sum of row[j]*s[j] over
\* the other slots for slot 0, s[i] + col_hat[i-1]*v for slot i >= 1.
PartialOut(n) ==
    IF RowAt(n).idx = 0
    THEN Add(Mul(SparseRow(spec)[RowAt(n).round + 1][1], PartialV(n)),
             Sum(Tab(LAMBDA j : IF j = 1 THEN 0
                                ELSE Mul(SparseRow(spec)[RowAt(n).round + 1][j], RowAt(n).s[j]),
                     T), T))
    ELSE Add(RowAt(n).s[RowAt(n).idx + 1],
             Mul(SparseColHat(spec)[RowAt(n).round + 1][RowAt(n).idx], PartialV(n)))

\* The vector (v, s[1], ..., s[T-1]) times the matrix with first row row,
\* first column below the top col_hat and the identity elsewhere.
PartialDense(n) ==
    MatVec(SparseMatrix(SparseRow(spec)[RowAt(n).round + 1],
                        SparseColHat(spec)[RowAt(n).round + 1]),
           Tab(LAMBDA j : IF j = 1 THEN PartialV(n) ELSE RowAt(n).s[j], T))

\* C21: in a partial round only slot 0 receives the degree-5 S-box: with
\* v = s[0]^5 + rc the output of slot 0 is row[0]*v + sum of row[j]*s[j]
\* over the other slots, the output of slot i >= 1 is s[i] + col_hat[i-1]*v;
\* the T rows of the round hold the same input state; and the outputs are
\* the product of (v, s[1], ..., s[T-1]) with the sparse matrix.
C21_PartialRound ==
    call.op \in {"permutation", "squeeze"} /\ ~call.panic =>
        \A n \in 0 .. NumSteps - 1 :
            RowAt(n).kind = "partial_round" =>
                /\ RowAt(n).out = PartialOut(n)
                /\ RowAt(n).s = RowAt(n - RowAt(n).idx).s
                /\ RowAt(n - RowAt(n).idx).kind = "partial_round"
                /\ RowAt(n - RowAt(n).idx).round = RowAt(n).round
                /\ RowAt(n).out = PartialDense(n)[RowAt(n).idx + 1]

\* A partial round whose state has a non-zero slot 0: the last slot's row
\* adds a non-zero multiple of v to its own slot, and the row of slot 0
\* does not pass its slot on.
C21_Witness ==
    /\ call.op = "permutation" /\ ~call.panic
    /\ \E n \in 0 .. NumSteps - 1 :
           /\ RowAt(n).kind = "partial_round" /\ RowAt(n).idx = T - 1
           /\ RowAt(n).s[1] # 0
           /\ RowAt(n).out # RowAt(n).s[T]
           /\ RowAt(n - (T - 1)).out # RowAt(n).s[1]

(* -------------------------------- C22 ---------------------------------- *)
\* The Input x with the incoming instance and the proof of its self trace
\* and the incoming entries of its support trace taken from the Input z.
Graft(x, z) ==
    [x EXCEPT !.self_trace.incoming = z.self_trace.incoming,
              !.self_trace.proof = z.self_trace.proof,
              !.support_trace.incoming = z.support_trace.incoming]

\* The Inputs the parts are taken from, of every shape and fill.
Donors ==
    {MakeInput(a, b, c, 0, fill) :
        a \in 0 .. MaxDim, b \in 0 .. MaxDim, c \in 0 .. MaxDim, fill \in Fills}

\* Two Inputs agree on everything the claim holds fixed.
AgreeOutsideIncoming(x, y) ==
    /\ x.self_trace.input_accumulator = y.self_trace.input_accumulator
    /\ x.support_trace.input_accumulator = y.support_trace.input_accumulator
    /\ x.pp_digest = y.pp_digest /\ x.step = y.step
    /\ x.z_0 = y.z_0 /\ x.z_i = y.z_i

\* C22: the stream absorbed for an Input does not depend on the incoming
\* instances or the proofs of either trace: an Input that agrees with it on
\* both input accumulators, pp_digest, step, z_0 and z_i and differs in
\* self_trace.incoming, self_trace.proof or support_trace.incoming absorbs
\* the same stream.
C22_IncomingNotAbsorbed ==
    res.op = "absorb_input" =>
        \A z \in Donors :
            /\ AgreeOutsideIncoming(arg.val, Graft(arg.val, z))
            /\ absorb_into_Input(Graft(arg.val, z), <<>>) = res.val

\* An Input was absorbed, and another one agrees with it on the absorbed
\* parts and differs from it in the incoming instance, in the proof and in
\* the incoming support entries, in lengths and in values.
C22_Witness ==
    /\ res.op = "absorb_input" /\ Len(res.val) > 7 + 2 * Arity
    /\ \E z \in Donors :
           /\ Graft(arg.val, z).self_trace.incoming # arg.val.self_trace.incoming
           /\ Len(Graft(arg.val, z).self_trace.proof.poly_K)
                  # Len(arg.val.self_trace.proof.poly_K)
           /\ Len(Graft(arg.val, z).support_trace.incoming)
                  # Len(arg.val.support_trace.incoming)
           /\ absorb_into_SelfTrace(Graft(arg.val, z).self_trace, <<>>)
                  # absorb_into_SelfTrace(arg.val.self_trace, <<>>)

=============================================================================
